---- MODULE Spec2Model ----
(***************************************************************************)
(* A model of the deployment orchestration of the cloud plugin:            *)
(*   - the resource linkage engine (src/commands/deploy/database.rs),      *)
(*   - the orchestrator deploy_cloud (src/commands/deploy.rs),             *)
(*   - the session manager login_connection (src/commands/deploy.rs).      *)
(* The control plane is an environment: a set of apps, the resources of    *)
(* each kind and a bag of links.  Every backend call may fail.             *)
(***************************************************************************)
EXTENDS Integers, Sequences, FiniteSets, Bags, TLC

\* ------------------------------------------------------------------------
\* Universes and bounds
\* ------------------------------------------------------------------------
\* the app the command deploys, and an app of the account that was
\* deployed before
AppNames == {"blog"}
OtherApp == "shop"
DbLabelUniverse == {"default", "finance"}
KvLabelUniverse == {"default"}
ResNames == {"r1", "r2"}

Database == "Database"
KeyValueStore == "KeyValueStore"
ResourceType == {Database, KeyValueStore}

SPIN_DEFAULT_KV_STORE == "default"

\* number of --key-value / --variable pairs of one deploy
MaxPairs == 1

NoName == "-"
\* most --link arguments of a command
MaxLinks == 3
\* most pages of a listing
MaxPages == 3
\* most items of a page
MaxItems == 2
\* the largest --readiness-timeout tried, in seconds
MaxTimeout == 4
\* the longest one request to the info endpoint takes, in seconds
MaxLatency == 1
\* const READINESS_POLL_INTERVAL_SECS
READINESS_POLL_INTERVAL_SECS == 2
\* most --link arguments of a command whose arguments are read as text
MaxLinkStrings == 2
\* most links of the account when a link command starts
MaxAccountLinks == 2
\* most apps of an account when deploy_cloud looks its app up
MaxApps == 51

\* Option<T>
None == <<>>
Some(x) == <<x>>

\* the session store: time in minutes
TOKEN_MUST_HAVE_REMAINING == 5
\* latest local time of an expiration string
MaxTime == 11
\* latest value of the clock
MaxNow == 1
Times == 0..MaxTime
Offsets == {0, 2}
Urls == {"https://cloud.fermyon.com/", "https://cloud.example.com/"}
DEFAULT_CLOUD_URL == "https://cloud.fermyon.com/"
\* the tokens of files and of the auth endpoints: the empty text is one
Tokens == {"", "t1"}
RefreshTokens == {"rt1", "rt2"}
EnvNames == {"staging"}

VARIABLES
    \* the control plane
    apps,               \* names of the apps of the account
    resources,          \* resources[kind]: names of the resources of that kind
    links,              \* bag of [kind, res, label, app]
    \* one deploy_cloud run
    pc,                 \* position of deploy_cloud
    app,                \* sanitized app name
    path,               \* "existing" | "new": the arm of get_app_id's match
    order,              \* label_types: the (label, kind) pairs in processing order
    idx,                \* index of the pair the linkage loop is at
    interact,           \* the InteractionStrategy
    link_args,          \* self.links: the --link arguments, parsed into LinkageSpecs
    selection,          \* the ResourceSelection of the pair at idx
    resources_to_link,  \* Vec<LinkageSpec> of the new-app path
    key_values,         \* --key-value pairs still to write
    variables,          \* --variable pairs still to write
    linkage,            \* what the linkage function returned: "Some" | "None" | "Err"
    result,             \* what deploy_cloud returned: "Ok" | "Err"
    trace,              \* the calls and prompts of this run, in order
    resources0,         \* the resources when the run started
    links0,             \* the links when the run started
    \* the session store and one login_connection run
    files,              \* files[stem]: the JSON object of <stem>.json, or None
    files0,             \* the store when the command started
    env,                \* deployment_env_id: None | Some(name)
    now,                \* Utc::now() of needs_renewal, in minutes
    lpc,                \* position of login_connection
    login_connection,   \* the local of that name: None | Some(LoginConnection)
    expired,            \* the local `expired`: "true" | "false" | "Err"
    outcome,            \* "Ok" | "Err" | "Exit1" (std::process::exit(1))
    stderr,             \* the last advice printed to stderr
    netlog,             \* file reads, logins, refreshes and renewal tests, in order
    \* one get_revision_id / get_channel_id search
    pages,              \* the server's pages of revisions or channels, in order
    query,              \* what is searched: function, app id and version or name
    page_index,         \* the index of the page held (0: none yet)
    spc,                \* position of the search
    found,              \* its result: "-" | Ok(id) | Err
    fetched,            \* the list calls made, in order: the page indexes asked
    \* the end of deploy_cloud: one wait_for_ready call and the summary
    readiness_timeout_secs, \* --readiness-timeout
    expected_version,   \* the digest pushed ("" when the push gave none)
    http_routes,        \* whether the application has an HTTP route
    elapsed,            \* start.elapsed(), in seconds
    polls,              \* the responses of the info endpoint seen, in order
    wpc,                \* position of deploy_cloud and of wait_for_ready
    waited,             \* what wait_for_ready returned: NoResult | Ok(how)
    printed,            \* the lines written to stdout, in order
    deployed,           \* the result of deploy_cloud: NoResult | Ok | Err
    \* DeployCommand::run up to the push
    cpc,                \* position of run
    cmd_log,            \* the steps of deploy_cloud so far, in order
    cmd_result,         \* the result of run: NoResult | Ok | Err(cause)
    \* one Interactive::prompt_resource_selection call
    ppc,                \* the prompt the operator is at
    listed,             \* the names of the resources listed, in order
    prompt_for,         \* the (label, kind) asked about
    dialog,             \* the prompts shown and their answers, in order
    prompted,           \* what the strategy returned: a ResourceSelection
    \* one `link sqlite` / `link key-value-store` command
    link_pc,            \* position of the command
    link_cmd,           \* its arguments: kind, resource name, app, label
    replaced,           \* the link the operator is asked to replace, or None
    link_calls,         \* the calls of the command, in order
    link_result,        \* what the command returned: NoResult | Ok | Err
    \* deploy_cloud looking up its app in an account of any size
    n_apps,             \* how many apps the account has
    app_at,             \* the place of the app in the list of apps, 0: none
    gpc,                \* position of deploy_cloud
    looked_up,          \* what get_app_id returned: "-" | "Err" | "None" | "Some"
    arm,                \* the calls deploy_cloud went on to make
    \* two deploy runs on one app, each at one declared label
    rpc,                \* position of each run
    rsel,               \* the selection each run holds
    rcalls              \* the calls and prompts of both runs, in order

backendVars == <<apps, resources, links>>
runVars == <<pc, app, path, order, idx, interact, link_args, selection,
             resources_to_link, key_values, variables, linkage, result, trace,
             resources0, links0>>
sessionVars == <<files, files0, env, now, lpc, login_connection, expired, outcome,
                 stderr, netlog>>
searchVars == <<pages, query, page_index, spc, found, fetched>>
readyVars == <<readiness_timeout_secs, expected_version, http_routes, elapsed, polls,
               wpc, waited, printed, deployed>>
cmdVars == <<cpc, cmd_log, cmd_result>>
promptVars == <<ppc, listed, prompt_for, dialog, prompted>>
linkVars == <<link_pc, link_cmd, replaced, link_calls, link_result>>
lookupVars == <<n_apps, app_at, gpc, looked_up, arm>>
raceVars == <<rpc, rsel, rcalls>>
vars == <<backendVars, runVars, sessionVars, searchVars, readyVars, cmdVars, promptVars, linkVars, lookupVars, raceVars>>

\* ------------------------------------------------------------------------
\* Values
\* ------------------------------------------------------------------------
Pair(l, k) == [label |-> l, kind |-> k]

Perms(S) ==
    {s \in [1..Cardinality(S) -> S] :
        \A i, j \in 1..Cardinality(S) : i # j => s[i] # s[j]}

\* ResourceSelection, ExistingAppResourceSelection and the error of a Result
Sel(tag, name) == [tag |-> tag, name |-> name]
Existing(n) == Sel("Existing", n)
New(n) == Sel("New", n)
Cancelled == Sel("Cancelled", NoName)
AlreadyLinked == Sel("AlreadyLinked", NoName)
Failed == Sel("Err", NoName)
NoSelection == Sel("-", NoName)

\* one call or prompt of a run
Ev(op, kind, res, label, ans) ==
    [op |-> op, kind |-> kind, res |-> res, label |-> label, ans |-> ans]

LinkageSpec(label, resource_name, resource_type) ==
    [label |-> label, resource_name |-> resource_name, resource_type |-> resource_type]

EmptyMap == [l \in {} |-> NoName]
Maps(dom) == UNION {[d -> ResNames] : d \in SUBSET dom}

Interactive == [mode |-> "Interactive",
                db_labels_to_resource |-> EmptyMap,
                kv_labels_to_resource |-> EmptyMap]
Scripted(db, kv) == [mode |-> "Scripted",
                     db_labels_to_resource |-> db,
                     kv_labels_to_resource |-> kv]

\* ------------------------------------------------------------------------
\* The control plane
\* ------------------------------------------------------------------------
Link(kind, res, label, a) == [kind |-> kind, res |-> res, label |-> label, app |-> a]

\* GET databases / key value stores: each resource with its links
get_resources(kind) ==
    {[name |-> n,
      links |-> {[label |-> x.label, app_name |-> x.app] :
                    x \in {y \in BagToSet(links) : y.kind = kind /\ y.res = n}}] :
        n \in resources[kind]}

\* ResourceLinks::has_link
has_link(d, label, a) ==
    \E l \in d.links : l.label = label /\ l.app_name = a

\* CloudClientExt::get_app_id on an account whose apps all fit on the first
\* page of the list
get_app_id(name) == IF name \in apps THEN "existing" ELSE "new"

\* how many links (label, kind) of app a are live
LiveLinks(a, label, kind) ==
    LET S == {y \in BagToSet(links) : y.kind = kind /\ y.label = label /\ y.app = a}
    IN  IF S = {} THEN 0
        ELSE IF Cardinality(S) = 1 THEN CopiesIn(CHOOSE y \in S : TRUE, links)
        ELSE 2

\* ------------------------------------------------------------------------
\* Decision strategies
\* ------------------------------------------------------------------------
\* a script that falls back on a resource named after nothing in it
resource_for_with_fallback(s, label, resource_type) ==
    LET m == IF resource_type = Database THEN s.db_labels_to_resource
             ELSE s.kv_labels_to_resource
    IN  IF label \in DOMAIN m THEN [ok |-> TRUE, name |-> m[label]]
        ELSE [ok |-> TRUE, name |-> "r2"]

\* Scripted::resource_for
resource_for(s, label, resource_type) ==
    LET m == IF resource_type = Database THEN s.db_labels_to_resource
             ELSE s.kv_labels_to_resource
    IN  IF label \in DOMAIN m THEN [ok |-> TRUE, name |-> m[label]]
        ELSE [ok |-> FALSE, name |-> NoName]

\* a script that never looks at the resource list
Scripted_always_new(s, label, rs, resource_type) ==
    LET requested_resource == resource_for(s, label, resource_type)
    IN  IF ~requested_resource.ok THEN {Failed}
        ELSE {New(requested_resource.name)}

\* impl InteractionStrategy for Scripted
Scripted_prompt_resource_selection(s, label, rs, resource_type) ==
    LET existing_names == {d.name : d \in rs}
        requested_resource == resource_for(s, label, resource_type)
    IN  IF ~requested_resource.ok THEN {Failed}
        ELSE IF requested_resource.name \in existing_names
             THEN {Existing(requested_resource.name)}
             ELSE {New(requested_resource.name)}

\* impl InteractionStrategy for Interactive: every answer of the operator.
\* A prompt with no answer cancels, a terminal error fails, "use existing"
\* selects one of the listed names, "create new" accepts any typed name.
Interactive_prompt_resource_selection(rs) ==
    {Cancelled, Failed}
        \cup {Existing(d.name) : d \in rs}
        \cup {New(n) : n \in ResNames}

prompt_resource_selection(strategy, label, rs, resource_type) ==
    IF strategy.mode = "Scripted"
    THEN Scripted_prompt_resource_selection(strategy, label, rs, resource_type)
    ELSE Interactive_prompt_resource_selection(rs)

\* ------------------------------------------------------------------------
\* The linkage engine: the selection of one label
\* ------------------------------------------------------------------------
\* The listing call made for a label.  Its last field records whether the
\* control plane held a link (label, kind) of app a when it was made.
ListEv(kind, label, a) ==
    Ev("get_resources", kind, NoName, label,
       IF LiveLinks(a, label, kind) > 0 THEN "linked" ELSE "unlinked")
PromptEv(kind, label, s) == Ev("prompt", kind, s.name, label, s.tag)

\* get_resource_selection_for_existing_app without its already-linked test
selection_without_link_test(ok, a, label, strategy, resource_type) ==
    LET rs == get_resources(resource_type)
    IN  IF ~ok THEN {[sel |-> Failed, evs |-> <<ListEv(resource_type, label, a)>>]}
        ELSE {[sel |-> s,
               evs |-> <<ListEv(resource_type, label, a),
                         PromptEv(resource_type, label, s)>>] :
                s \in prompt_resource_selection(strategy, label, rs, resource_type)}

\* get_resource_selection_for_existing_app asking the strategy before it
\* lists the resources
selection_prompt_first(ok, a, label, strategy, resource_type) ==
    LET rs == get_resources(resource_type)
    IN  IF \E d \in rs : has_link(d, label, a)
        THEN {[sel |-> AlreadyLinked, evs |-> <<ListEv(resource_type, label, a)>>]}
        ELSE {[sel |-> IF ok THEN s ELSE Failed,
               evs |-> <<PromptEv(resource_type, label, s),
                         ListEv(resource_type, label, a)>>] :
                s \in prompt_resource_selection(strategy, label, rs, resource_type)}

\* get_resource_selection_for_existing_app taking a label for linked when
\* the app has any link to a resource of the type
selection_any_label_linked(ok, a, label, strategy, resource_type) ==
    LET rs == get_resources(resource_type)
    IN  IF ~ok THEN {[sel |-> Failed, evs |-> <<ListEv(resource_type, label, a)>>]}
        ELSE IF \E d \in rs : \E l \in d.links : l.app_name = a
        THEN {[sel |-> AlreadyLinked, evs |-> <<ListEv(resource_type, label, a)>>]}
        ELSE {[sel |-> s,
               evs |-> <<ListEv(resource_type, label, a),
                         PromptEv(resource_type, label, s)>>] :
                s \in prompt_resource_selection(strategy, label, rs, resource_type)}

\* get_resource_selection_for_existing_app: the outcomes, each with the
\* calls and prompts it made.  ok: whether the listing call succeeded.
get_resource_selection_for_existing_app(ok, a, label, strategy, resource_type) ==
    LET rs == get_resources(resource_type)
    IN  IF ~ok THEN {[sel |-> Failed, evs |-> <<ListEv(resource_type, label, a)>>]}
        ELSE IF \E d \in rs : has_link(d, label, a)
        THEN {[sel |-> AlreadyLinked, evs |-> <<ListEv(resource_type, label, a)>>]}
        ELSE {[sel |-> s,
               evs |-> <<ListEv(resource_type, label, a),
                         PromptEv(resource_type, label, s)>>] :
                s \in prompt_resource_selection(strategy, label, rs, resource_type)}

\* get_resource_selection_for_new_app
get_resource_selection_for_new_app(ok, a, label, strategy, resource_type) ==
    LET rs == get_resources(resource_type)
    IN  IF ~ok THEN {[sel |-> Failed, evs |-> <<ListEv(resource_type, label, a)>>]}
        ELSE {[sel |-> s,
               evs |-> <<ListEv(resource_type, label, a),
                         PromptEv(resource_type, label, s)>>] :
                s \in prompt_resource_selection(strategy, label, rs, resource_type)}

\* ------------------------------------------------------------------------
\* deploy_cloud
\* ------------------------------------------------------------------------
\* deploy_cloud creating the app although the linkage was cancelled
deploy_cloud_ignoring_cancel(p, ret) ==
    IF ret = "Err" THEN [pc |-> "done", result |-> "Err"]
    ELSE IF p = "existing" THEN [pc |-> "add_revision", result |-> "-"]
    ELSE [pc |-> "add_app", result |-> "-"]

\* deploy_cloud linking the resources of a new app before it adds the app
deploy_cloud_links_first(p, ret) ==
    IF p = "existing"
    THEN IF ret = "Err" THEN [pc |-> "done", result |-> "Err"]
         ELSE [pc |-> "add_revision", result |-> "-"]
    ELSE CASE ret = "Err" -> [pc |-> "done", result |-> "Err"]
           [] ret = "None" -> [pc |-> "done", result |-> "Ok"]
           [] OTHER -> [pc |-> IF resources_to_link = <<>> THEN "add_app"
                               ELSE "link_resources",
                        result |-> "-"]

\* deploy_cloud after the linkage function of its arm has returned ret
deploy_cloud_continue(p, ret) ==
    IF p = "existing"
    THEN \* `.await?;` the Option is dropped
         IF ret = "Err" THEN [pc |-> "done", result |-> "Err"]
         ELSE [pc |-> "add_revision", result |-> "-"]
    ELSE CASE ret = "Err" -> [pc |-> "done", result |-> "Err"]
           [] ret = "None" -> [pc |-> "done", result |-> "Ok"]
           [] OTHER -> [pc |-> "add_app", result |-> "-"]

\* the linkage loop after pair i: the next pair, or Ok(Some(..))
loop_next(p, ord, i) ==
    IF i < Len(ord)
    THEN [pc |-> "resolve", idx |-> i + 1, linkage |-> "running", result |-> "-"]
    ELSE [pc |-> deploy_cloud_continue(p, "Some").pc, idx |-> i,
          linkage |-> "Some", result |-> deploy_cloud_continue(p, "Some").result]

\* the linkage function returns ret at pair i
loop_return(p, i, ret) ==
    [pc |-> deploy_cloud_continue(p, ret).pc, idx |-> i,
     linkage |-> ret, result |-> deploy_cloud_continue(p, ret).result]

Goto(c) ==
    /\ pc' = c.pc
    /\ idx' = c.idx
    /\ linkage' = c.linkage
    /\ result' = c.result

\* label_types: db labels in set order, then kv labels in set order
label_types(db_labels, kv_labels) ==
    {[i \in 1..(Cardinality(db_labels) + Cardinality(kv_labels)) |->
        IF i <= Cardinality(db_labels) THEN Pair(p[i], Database)
        ELSE Pair(q[i - Cardinality(db_labels)], KeyValueStore)] :
        p \in Perms(db_labels), q \in Perms(kv_labels)}

\* no strategy could be built
NoStrategy == [mode |-> "-",
               db_labels_to_resource |-> EmptyMap,
               kv_labels_to_resource |-> EmptyMap]

\* Scripted::set_label_action replacing the entry of an occupied label
set_label_action_overwrite(s, label, resource_name, resource_type) ==
    [ok |-> TRUE,
     strategy |->
        IF resource_type = Database
        THEN [s EXCEPT !.db_labels_to_resource =
                (label :> resource_name) @@ s.db_labels_to_resource]
        ELSE [s EXCEPT !.kv_labels_to_resource =
                (label :> resource_name) @@ s.kv_labels_to_resource]]

\* Scripted::set_label_action with one namespace of labels for both kinds
set_label_action_one_namespace(s, label, resource_name, resource_type) ==
    IF label \in DOMAIN s.db_labels_to_resource \cup DOMAIN s.kv_labels_to_resource
    THEN [ok |-> FALSE, strategy |-> s]
    ELSE [ok |-> TRUE,
          strategy |->
            IF resource_type = Database
            THEN [s EXCEPT !.db_labels_to_resource = @ @@ (label :> resource_name)]
            ELSE [s EXCEPT !.kv_labels_to_resource = @ @@ (label :> resource_name)]]

\* Scripted::set_label_action: Err and the maps as they were for an
\* occupied entry, else the entry inserted
set_label_action(s, label, resource_name, resource_type) ==
    LET labels_to_resource ==
            IF resource_type = Database THEN s.db_labels_to_resource
            ELSE s.kv_labels_to_resource
    IN  IF label \in DOMAIN labels_to_resource
        THEN [ok |-> FALSE, strategy |-> s]
        ELSE [ok |-> TRUE,
              strategy |->
                IF resource_type = Database
                THEN [s EXCEPT !.db_labels_to_resource =
                        labels_to_resource @@ (label :> resource_name)]
                ELSE [s EXCEPT !.kv_labels_to_resource =
                        labels_to_resource @@ (label :> resource_name)]]

\* parse_linkage_specs: the specs added in order, up to the first error
RECURSIVE parse_linkage_specs(_)
parse_linkage_specs(ls) ==
    IF ls = <<>> THEN [ok |-> TRUE, strategy |-> Scripted(EmptyMap, EmptyMap)]
    ELSE LET before == parse_linkage_specs(SubSeq(ls, 1, Len(ls) - 1))
             link == ls[Len(ls)]
         IN  IF ~before.ok THEN before
             ELSE set_label_action(before.strategy, link.label,
                                   link.resource_name, link.resource_type)

\* DeployCommand::interaction_strategy: Interactive without --link, else the
\* script
interaction_strategy(ls) ==
    IF ls = <<>> THEN [ok |-> TRUE, strategy |-> Interactive]
    ELSE parse_linkage_specs(ls)

\* the --link arguments of a command.  Arguments for labels the app does
\* not declare are never read and left out.
LinkArgs(db_labels, kv_labels) ==
    LET specs == {LinkageSpec(l, n, Database) : l \in db_labels, n \in ResNames}
                 \cup {LinkageSpec(l, n, KeyValueStore) : l \in kv_labels, n \in ResNames}
    IN  UNION {[1..n -> specs] : n \in 0..MaxLinks}

\* ------------------------------------------------------------------------
\* The session store and login_connection
\* ------------------------------------------------------------------------
\* An expiration string: local time t at UTC offset off, or no RFC 3339 text
Exp(t, off, valid) == [t |-> t, off |-> off, valid |-> valid]
Garbage == Exp(0, 0, FALSE)
ExpStrings == {Exp(t, off, TRUE) : t \in Times, off \in Offsets} \cup {Garbage}

\* struct LoginConnection
LoginConnection(url, insecure, token, refresh_token, expiration) ==
    [url |-> url, danger_accept_invalid_certs |-> insecure, token |-> token,
     refresh_token |-> refresh_token, expiration |-> expiration]

LoginConnections ==
    {LoginConnection(u, i, t, r, e) :
        u \in Urls, i \in BOOLEAN, t \in Tokens,
        r \in {None} \cup {Some(x) : x \in RefreshTokens},
        e \in {None} \cup {Some(x) : x \in ExpStrings}}

\* TokenInfo of the auth endpoints: the server stamps UTC expirations
TokenInfos ==
    {[token |-> t, refresh_token |-> r, expiration |-> Exp(x, 0, TRUE)] :
        t \in Tokens, r \in RefreshTokens, x \in Times}

\* serde_json::to_string_pretty(&LoginConnection): a None is skipped
to_json(c) ==
    LET keys == {"url", "danger_accept_invalid_certs", "token"}
                  \cup (IF c.refresh_token = None THEN {} ELSE {"refresh_token"})
                  \cup (IF c.expiration = None THEN {} ELSE {"expiration"})
    IN  [k \in keys |->
            CASE k = "url" -> c.url
              [] k = "danger_accept_invalid_certs" -> c.danger_accept_invalid_certs
              [] k = "token" -> c.token
              [] k = "refresh_token" -> c.refresh_token[1]
              [] OTHER -> c.expiration[1]]

\* serde_json::from_str::<LoginConnection>: a missing optional key is None,
\* a missing required key is an error
from_str(j) ==
    IF {"url", "danger_accept_invalid_certs", "token"} \subseteq DOMAIN j
    THEN Some(LoginConnection(
            j["url"], j["danger_accept_invalid_certs"], j["token"],
            IF "refresh_token" \in DOMAIN j THEN Some(j["refresh_token"]) ELSE None,
            IF "expiration" \in DOMAIN j THEN Some(j["expiration"]) ELSE None))
    ELSE None

\* a file that is no LoginConnection
BrokenJson == [k \in {"url"} |-> DEFAULT_CLOUD_URL]

\* config_file_path: the stem of the file under the config directory
config_file_path(deployment_env_id) ==
    IF deployment_env_id = None THEN "config" ELSE deployment_env_id[1]

FileStems == {"config"} \cup EnvNames

\* DateTime::parse_from_rfc3339(..).to_utc(): the instant, or an error
parse_from_rfc3339(e) ==
    IF e.valid THEN [ok |-> TRUE, utc |-> e.t - e.off] ELSE [ok |-> FALSE, utc |-> 0]

\* needs_renewal comparing with <= instead of <
needs_renewal_inclusive(c, t) ==
    IF c.expiration = None THEN "false"
    ELSE LET time == parse_from_rfc3339(c.expiration[1])
         IN  IF ~time.ok THEN "Err"
             ELSE IF time.utc - t <= TOKEN_MUST_HAVE_REMAINING THEN "true" ELSE "false"

\* needs_renewal
needs_renewal(c, t) ==
    IF c.expiration = None THEN "false"
    ELSE LET time == parse_from_rfc3339(c.expiration[1])
         IN  IF ~time.ok THEN "Err"
             ELSE IF time.utc - t < TOKEN_MUST_HAVE_REMAINING THEN "true" ELSE "false"

\* LoginCommand::parse_from(["login"]).run(): the interactive login, with
\* the URL of the command line's environment.  The GitHub device flow
\* yields a TokenInfo, a personal access token yields a session with
\* neither refresh token nor expiration.
LoginResults ==
    {LoginConnection(u, FALSE, ti.token, Some(ti.refresh_token), Some(ti.expiration)) :
        u \in Urls, ti \in TokenInfos}
    \cup {LoginConnection(u, FALSE, t, None, None) : u \in Urls, t \in Tokens}

\* LoginCommand::save_login_info of that command: the default file
save_login_info(fs, c) == [fs EXCEPT !["config"] = Some(to_json(c))]

\* login_connection, Ok(token_info) of the refresh: the fields replaced
refreshed(c, token_info) ==
    [c EXCEPT !.token = token_info.token,
              !.refresh_token = Some(token_info.refresh_token),
              !.expiration = Some(token_info.expiration)]

\* the refreshed record written to the default file whatever the environment
write_refreshed_to_default(fs, deployment_env_id, c) ==
    [fs EXCEPT !["config"] = Some(to_json(c))]

\* login_connection, Ok(token_info): the record written to the file of
\* deployment_env_id
write_refreshed(fs, deployment_env_id, c) ==
    [fs EXCEPT ![config_file_path(deployment_env_id)] = Some(to_json(c))]

\* the last advice of the command on stderr
Advice(text, name) == [text |-> text, name |-> name]
NoAdvice == Advice("", None)

\* what login_connection does next and what it has printed
Step(c, o, text, name) == [pc |-> c, outcome |-> o, stderr |-> Advice(text, name)]

\* a missing file starts the interactive login whatever the environment
on_not_found_always_login(deployment_env_id) ==
    Step("login_missing", "-", "", None)

\* login_connection, the file is not found
on_not_found(deployment_env_id) ==
    IF deployment_env_id # None
    THEN Step("done", "Exit1", "log in", deployment_env_id)
    ELSE Step("login_missing", "-", "", None)

\* an expired session without refresh token logs in whatever the environment
on_expired_always_login(deployment_env_id, c) ==
    IF c.refresh_token # None THEN Step("refresh", "-", "", None)
    ELSE Step("login_expired", "-", "", None)

\* login_connection, if expired
on_expired(deployment_env_id, c) ==
    IF c.refresh_token # None THEN Step("refresh", "-", "", None)
    ELSE IF deployment_env_id # None
    THEN Step("done", "Exit1", "log in again", deployment_env_id)
    ELSE Step("login_expired", "-", "", None)

\* a failed refresh falls back to the interactive login
on_refresh_error_login(deployment_env_id) ==
    Step("login_expired", "-", "", None)

\* login_connection, Err(e) of the refresh
on_refresh_error(deployment_env_id) ==
    Step("done", "Exit1", "log in again", deployment_env_id)

\* login_connection from the parse of the file's data to its first call or
\* its return
on_data(deployment_env_id, data, t) ==
    IF from_str(data) = None THEN Step("done", "Err", "", None)
    ELSE CASE needs_renewal(from_str(data)[1], t) = "Err" ->
                Step("done", "Exit1", "log in again", None)
           [] needs_renewal(from_str(data)[1], t) = "false" ->
                Step("done", "Ok", "", None)
           [] OTHER -> on_expired(deployment_env_id, from_str(data)[1])

\* the record of a step of login_connection
IoEv(op, file, res) == [op |-> op, file |-> file, res |-> res]
RenewalEv(c, t, res) ==
    [op |-> "needs_renewal", expiration |-> c.expiration, now |-> t, res |-> res]

\* the events of parsing `data` and testing it for renewal
data_events(data, t) ==
    IF from_str(data) = None THEN <<>>
    ELSE <<RenewalEv(from_str(data)[1], t, needs_renewal(from_str(data)[1], t))>>

SessionIdle ==
    /\ files = [f \in FileStems |-> None]
    /\ files0 = [f \in FileStems |-> None]
    /\ env = None
    /\ now = 0
    /\ lpc = "idle"
    /\ login_connection = None
    /\ expired = "-"
    /\ outcome = "-"
    /\ stderr = NoAdvice
    /\ netlog = <<>>

\* The store holds any session written earlier for the environment of the
\* command, and possibly one for the other environment.
SessionInit ==
    /\ env \in {None} \cup {Some(n) : n \in EnvNames}
    /\ now \in 0..MaxNow
    /\ \E mine \in {None, Some(BrokenJson)} \cup {Some(to_json(c)) : c \in LoginConnections},
         other \in {None, Some(to_json(LoginConnection(DEFAULT_CLOUD_URL, FALSE, "t1",
                                                        Some("rt1"), Some(Exp(0, 0, TRUE)))))} :
         files = [f \in FileStems |->
                    IF f = config_file_path(env) THEN mine ELSE other]
    /\ files0 = files
    /\ lpc = "start"
    /\ login_connection = None
    /\ expired = "-"
    /\ outcome = "-"
    /\ stderr = NoAdvice
    /\ netlog = <<>>

\* the assignments of a step that has read `data` at time t
Loaded(data, t, events) ==
    /\ login_connection' = from_str(data)
    /\ expired' = IF from_str(data) = None THEN expired
                  ELSE needs_renewal(from_str(data)[1], t)
    /\ lpc' = on_data(env, data, t).pc
    /\ outcome' = on_data(env, data, t).outcome
    /\ stderr' = on_data(env, data, t).stderr
    /\ netlog' = netlog \o events \o data_events(data, t)

\* login_connection up to its first network call or its return.  Writes to
\* the configuration directory succeed.
LoginConnectionStart ==
    /\ lpc = "start"
    /\ UNCHANGED <<backendVars, runVars, searchVars, readyVars, cmdVars, promptVars, linkVars, lookupVars, raceVars>>
    /\ LET file == config_file_path(env)
           data == files[file]
       IN \E readable \in BOOLEAN :
            IF ~readable
            THEN \* bail!("Could not log in")
                 /\ data # None
                 /\ lpc' = "done" /\ outcome' = "Err"
                 /\ netlog' = Append(netlog, IoEv("read", file, None))
                 /\ UNCHANGED <<login_connection, expired, stderr>>
            ELSE IF data = None
            THEN /\ lpc' = on_not_found(env).pc
                 /\ outcome' = on_not_found(env).outcome
                 /\ stderr' = on_not_found(env).stderr
                 /\ netlog' = Append(netlog, IoEv("read", file, None))
                 /\ UNCHANGED <<login_connection, expired>>
            ELSE Loaded(data[1], now, <<IoEv("read", file, data)>>)
    /\ UNCHANGED <<files, files0, env, now>>

\* LoginCommand::run since the file was not found, the file read again and
\* login_connection up to its next call or its return
LoginMissing ==
    /\ lpc = "login_missing"
    /\ UNCHANGED <<backendVars, runVars, searchVars, readyVars, cmdVars, promptVars, linkVars, lookupVars, raceVars>>
    /\ \E r \in {None} \cup {Some(c) : c \in LoginResults}, t \in now..MaxNow :
        IF r # None /\ save_login_info(files, r[1])[config_file_path(env)] = None
        THEN \* fs::read_to_string(path).await? finds no file
             /\ files' = save_login_info(files, r[1])
             /\ netlog' = netlog \o
                    <<IoEv("login", "config", r),
                      IoEv("read", config_file_path(env), None)>>
             /\ lpc' = "done" /\ outcome' = "Err"
             /\ UNCHANGED <<login_connection, now, expired, stderr>>
        ELSE IF r # None
        THEN /\ files' = save_login_info(files, r[1])
             /\ now' = t
             /\ Loaded(files'[config_file_path(env)][1], t,
                       <<IoEv("login", "config", r),
                         IoEv("read", config_file_path(env), files'[config_file_path(env)])>>)
        ELSE /\ netlog' = Append(netlog, IoEv("login", "config", None))
             /\ lpc' = "done" /\ outcome' = "Err"
             /\ UNCHANGED <<login_connection, files, now, expired, stderr>>
    /\ UNCHANGED <<files0, env>>

\* client.refresh_token and the match on its result
RefreshToken ==
    /\ lpc = "refresh"
    /\ UNCHANGED <<backendVars, runVars, searchVars, readyVars, cmdVars, promptVars, linkVars, lookupVars, raceVars>>
    /\ \E r \in {None} \cup {Some(ti) : ti \in TokenInfos} :
        IF r # None
        THEN /\ login_connection' = Some(refreshed(login_connection[1], r[1]))
             /\ files' = write_refreshed(files, env, refreshed(login_connection[1], r[1]))
             /\ netlog' = Append(netlog, IoEv("refresh_token", config_file_path(env), r))
             /\ lpc' = "done" /\ outcome' = "Ok"
             /\ UNCHANGED stderr
        ELSE /\ netlog' = Append(netlog, IoEv("refresh_token", config_file_path(env), None))
             /\ lpc' = on_refresh_error(env).pc
             /\ outcome' = on_refresh_error(env).outcome
             /\ stderr' = on_refresh_error(env).stderr
             /\ UNCHANGED <<login_connection, files>>
    /\ UNCHANGED <<files0, env, now, expired>>

\* LoginCommand::run since the session has expired, then the file read again
LoginExpired ==
    /\ lpc = "login_expired"
    /\ UNCHANGED <<backendVars, runVars, searchVars, readyVars, cmdVars, promptVars, linkVars, lookupVars, raceVars>>
    /\ \E r \in {None} \cup {Some(c) : c \in LoginResults} :
        IF r # None
        THEN /\ files' = save_login_info(files, r[1])
             /\ netlog' = netlog \o
                    <<IoEv("login", "config", r),
                      IoEv("read", config_file_path(env), files'[config_file_path(env)])>>
             /\ login_connection' = from_str(files'[config_file_path(env)][1])
             /\ lpc' = "done"
             /\ outcome' = IF login_connection' = None THEN "Err" ELSE "Ok"
        ELSE /\ netlog' = Append(netlog, IoEv("login", "config", None))
             /\ lpc' = "done" /\ outcome' = "Err"
             /\ UNCHANGED <<login_connection, files>>
    /\ UNCHANGED <<files0, env, now, expired, stderr>>

SessionNext ==
    \/ LoginConnectionStart
    \/ LoginMissing
    \/ RefreshToken
    \/ LoginExpired

\* ------------------------------------------------------------------------
\* Paginated searches: get_revision_id and get_channel_id
\* ------------------------------------------------------------------------
AppIds == {"a1", "a2"}
\* revision numbers, or channel names
Keys == {"k1", "k2"}

\* a RevisionItem (key: revision_number) or a ChannelItem (key: name)
Item(id, app_id, key) == [id |-> id, app_id |-> app_id, key |-> key]

\* the items of the account: two with the same app and key, one of
\* another app, one with another key
Items == {Item("id1", "a1", "k1"), Item("id2", "a1", "k1"),
          Item("id3", "a2", "k1"), Item("id4", "a1", "k2")}

\* a RevisionItemPage or ChannelItemPage
Page(items, is_last_page) == [items |-> items, is_last_page |-> is_last_page]

ItemLists ==
    {l \in UNION {[1..n -> Items] : n \in 0..MaxItems} :
        \A i, j \in DOMAIN l : i # j => l[i] # l[j]}

\* the listings a server may hold: its last page reports is_last_page
Listings ==
    {l \in UNION {[1..n -> {Page(it, b) : it \in ItemLists, b \in BOOLEAN}] :
                    n \in 1..MaxPages} :
        l[Len(l)].is_last_page}

Ok(x) == [ok |-> TRUE, val |-> x]
Err(x) == [ok |-> FALSE, val |-> x]
NotFound == Err("not found")
FetchError == Err("list failed")
NoResult == Err("-")

\* Iterator::find over the items of a page: the first item of this app
\* and key, if any
RECURSIVE find(_, _, _)
find(items, app_id, key) ==
    IF items = <<>> THEN None
    ELSE IF Head(items).app_id = app_id /\ Head(items).key = key
    THEN Some(Head(items))
    ELSE find(Tail(items), app_id, key)

\* the loop body stopping at any page without a match
examine_stops_early(page, app_id, key) ==
    IF find(page.items, app_id, key) # None
    THEN [next |-> "return", result |-> Ok(find(page.items, app_id, key)[1].id)]
    ELSE [next |-> "break", result |-> NotFound]

\* the loop body going on past a match on a page that is not the last
examine_past_match(page, app_id, key) ==
    IF ~page.is_last_page
    THEN [next |-> "fetch", result |-> NoResult]
    ELSE IF find(page.items, app_id, key) # None
    THEN [next |-> "return", result |-> Ok(find(page.items, app_id, key)[1].id)]
    ELSE [next |-> "break", result |-> NotFound]

\* get_revision_id / get_channel_id, the loop body on the page held:
\* return the match, break after the last page, or fetch the next page
examine(page, app_id, key) ==
    IF find(page.items, app_id, key) # None
    THEN [next |-> "return", result |-> Ok(find(page.items, app_id, key)[1].id)]
    ELSE IF page.is_last_page
    THEN [next |-> "break", result |-> NotFound]
    ELSE [next |-> "fetch", result |-> NoResult]

SearchIdle ==
    /\ pages = <<>>
    /\ query = [fn |-> "-", app_id |-> "-", key |-> "-"]
    /\ page_index = 0
    /\ spc = "idle"
    /\ found = NoResult
    /\ fetched = <<>>

SearchInit ==
    /\ pages \in Listings
    /\ query \in {[fn |-> f, app_id |-> "a1", key |-> "k1"] :
                    f \in {"get_revision_id", "get_channel_id"}}
    /\ page_index = 0
    /\ spc = "start"
    /\ found = NoResult
    /\ fetched = <<>>

\* list_revisions() / list_channels(): the first page
ListFirst ==
    /\ spc = "start"
    /\ UNCHANGED <<backendVars, runVars, sessionVars, readyVars, cmdVars, promptVars, linkVars, lookupVars, raceVars>>
    /\ \E ok \in BOOLEAN :
        /\ fetched' = Append(fetched, 1)
        /\ IF ok
           THEN /\ page_index' = 1
                /\ spc' = "loop"
                /\ UNCHANGED found
           ELSE /\ spc' = "done"
                /\ found' = FetchError
                /\ UNCHANGED page_index
    /\ UNCHANGED <<pages, query>>

\* one turn of the loop: the page held is examined, and the next page is
\* asked for (list_revisions_next / list_channels_next) if the search
\* goes on
ExaminePage ==
    /\ spc = "loop"
    /\ UNCHANGED <<backendVars, runVars, sessionVars, readyVars, cmdVars, promptVars, linkVars, lookupVars, raceVars>>
    /\ LET turn == examine(pages[page_index], query.app_id, query.key)
       IN  IF turn.next # "fetch"
           THEN /\ spc' = "done"
                /\ found' = turn.result
                /\ UNCHANGED <<page_index, fetched>>
           ELSE \E ok \in BOOLEAN :
                /\ fetched' = Append(fetched, page_index + 1)
                /\ IF ok
                   THEN /\ page_index' = page_index + 1
                        /\ UNCHANGED <<spc, found>>
                   ELSE /\ spc' = "done"
                        /\ found' = FetchError
                        /\ UNCHANGED page_index
    /\ UNCHANGED <<pages, query>>

SearchNext ==
    \/ ListFirst
    \/ ExaminePage

\* ------------------------------------------------------------------------
\* wait_for_ready
\* ------------------------------------------------------------------------
\* the digests an app reports, and the digest pushed
Versions == {"v1", "v2"}
ExpectedVersions == {"v2", ""}

\* what a GET of the info endpoint gives: a request that fails, a status,
\* and the body as parsed into AppInfo (None: the body does not parse)
Response(failed, success, body) == [failed |-> failed, success |-> success, body |-> body]
AppInfo(oci_image_digest) == [oci_image_digest |-> oci_image_digest]
Responses ==
    {Response(TRUE, FALSE, None), Response(FALSE, FALSE, None), Response(FALSE, TRUE, None)}
    \cup {Response(FALSE, TRUE, Some(AppInfo(d))) : d \in {None} \cup {Some(v) : v \in Versions}}

is_ready_status_ready(resp, expected) ==
    IF resp.failed THEN Ok(FALSE)
    ELSE IF ~resp.success THEN Ok(TRUE)
    ELSE IF resp.body # None /\ resp.body[1].oci_image_digest # Some(expected)
         THEN Ok(FALSE)
    ELSE Ok(TRUE)

is_ready_request_error(resp, expected) ==
    IF resp.failed THEN Err("request failed")
    ELSE IF ~resp.success THEN Ok(FALSE)
    ELSE IF resp.body # None /\ resp.body[1].oci_image_digest # Some(expected)
         THEN Ok(FALSE)
    ELSE Ok(TRUE)

is_ready_any_body(resp, expected) ==
    IF resp.failed THEN Ok(FALSE)
    ELSE IF ~resp.success THEN Ok(FALSE)
    ELSE Ok(TRUE)

\* is_ready: a failed request and a non-success status are "not ready"; so
\* is a parsed body whose digest is not the expected one; anything else,
\* a body that does not parse included, is "ready"
is_ready(resp, expected) ==
    IF resp.failed THEN Ok(FALSE)
    ELSE IF ~resp.success THEN Ok(FALSE)
    ELSE IF resp.body # None /\ resp.body[1].oci_image_digest # Some(expected)
         THEN Ok(FALSE)
    ELSE Ok(TRUE)

wait_entry_always_polls(timeout) == "poll"

\* the head of wait_for_ready: a timeout of 0 returns at once
wait_entry(timeout) == IF timeout = 0 THEN "return" ELSE "poll"

\* what one turn of the loop does with the answer r of is_ready when t
\* seconds have passed: the lines printed, and either the value returned
\* or the sleep
Turn(out, next, ret) == [out |-> out, next |-> next, ret |-> ret]

on_poll_timeout_fatal(r, t, timeout) ==
    IF ~r.ok THEN Turn(<<"... readiness check failed">>, "return", Ok("abandoned"))
    ELSE IF r.val THEN Turn(<<"... ready">>, "return", Ok("ready"))
    ELSE IF t >= timeout
         THEN Turn(<<".", "could not establish readiness", "check the dashboard">>,
                   "return", Err("timeout"))
    ELSE Turn(<<".">>, "sleep", NoResult)

on_poll_deadline_strict(r, t, timeout) ==
    IF ~r.ok THEN Turn(<<"... readiness check failed">>, "return", Ok("abandoned"))
    ELSE IF r.val THEN Turn(<<"... ready">>, "return", Ok("ready"))
    ELSE IF t > timeout
         THEN Turn(<<".", "could not establish readiness", "check the dashboard">>,
                   "return", Ok("timeout"))
    ELSE Turn(<<".">>, "sleep", NoResult)

on_poll(r, t, timeout) ==
    IF ~r.ok THEN Turn(<<"... readiness check failed">>, "return", Ok("abandoned"))
    ELSE IF r.val THEN Turn(<<"... ready">>, "return", Ok("ready"))
    ELSE IF t >= timeout
         THEN Turn(<<".", "could not establish readiness", "check the dashboard">>,
                   "return", Ok("timeout"))
    ELSE Turn(<<".">>, "sleep", NoResult)

ReadyIdle ==
    /\ readiness_timeout_secs = 0
    /\ expected_version = ""
    /\ http_routes = FALSE
    /\ elapsed = 0
    /\ polls = <<>>
    /\ wpc = "idle"
    /\ waited = NoResult
    /\ printed = <<>>
    /\ deployed = NoResult

\* deploy_cloud has the app and its base URL
ReadyInit ==
    /\ readiness_timeout_secs \in 0..MaxTimeout
    /\ expected_version \in ExpectedVersions
    /\ http_routes \in BOOLEAN
    /\ elapsed = 0
    /\ polls = <<>>
    /\ wpc = "routes"
    /\ waited = NoResult
    /\ printed = <<>>
    /\ deployed = NoResult

\* deploy_cloud: an application with an HTTP route is waited for; one
\* without is reported as running and the command succeeds
Routes ==
    /\ wpc = "routes"
    /\ IF http_routes
       THEN /\ wpc' = "wait_for_ready"
            /\ UNCHANGED <<printed, deployed>>
       ELSE /\ printed' = Append(printed, "Application is running at")
            /\ deployed' = Ok("unit")
            /\ wpc' = "done"
    /\ UNCHANGED <<readiness_timeout_secs, expected_version, http_routes, elapsed, polls,
                   waited>>
    /\ UNCHANGED <<backendVars, runVars, sessionVars, searchVars, cmdVars, promptVars, linkVars, lookupVars, raceVars>>

\* wait_for_ready up to the loop
WaitForReady ==
    /\ wpc = "wait_for_ready"
    /\ IF wait_entry(readiness_timeout_secs) = "return"
       THEN /\ waited' = Ok("skipped")
            /\ wpc' = "summary"
            /\ UNCHANGED printed
       ELSE /\ printed' = Append(printed, "Waiting for application to become ready")
            /\ wpc' = "poll"
            /\ UNCHANGED waited
    /\ UNCHANGED <<readiness_timeout_secs, expected_version, http_routes, elapsed, polls,
                   deployed>>
    /\ UNCHANGED <<backendVars, runVars, sessionVars, searchVars, cmdVars, promptVars, linkVars, lookupVars, raceVars>>

\* one turn of the loop: the request, which takes some time, and what
\* follows from its answer
Poll ==
    /\ wpc = "poll"
    /\ \E resp \in Responses, latency \in 0..MaxLatency :
        LET t == elapsed + latency
            turn == on_poll(is_ready(resp, expected_version), t, readiness_timeout_secs)
        IN  /\ polls' = Append(polls, resp)
            /\ elapsed' = t
            /\ printed' = printed \o turn.out
            /\ waited' = turn.ret
            /\ wpc' = IF turn.next = "return" THEN "summary" ELSE "sleep"
    /\ UNCHANGED <<readiness_timeout_secs, expected_version, http_routes, deployed>>
    /\ UNCHANGED <<backendVars, runVars, sessionVars, searchVars, cmdVars, promptVars, linkVars, lookupVars, raceVars>>

\* tokio::time::sleep(poll_interval)
Sleep ==
    /\ wpc = "sleep"
    /\ elapsed' = elapsed + READINESS_POLL_INTERVAL_SECS
    /\ wpc' = "poll"
    /\ UNCHANGED <<readiness_timeout_secs, expected_version, http_routes, polls, waited,
                   printed, deployed>>
    /\ UNCHANGED <<backendVars, runVars, sessionVars, searchVars, cmdVars, promptVars, linkVars, lookupVars, raceVars>>

\* deploy_cloud after the wait: the routes are printed and the command
\* succeeds, whatever the wait returned
Summary ==
    /\ wpc = "summary"
    /\ printed' = Append(printed, "Available Routes")
    /\ deployed' = Ok("unit")
    /\ wpc' = "done"
    /\ UNCHANGED <<readiness_timeout_secs, expected_version, http_routes, elapsed, polls,
                   waited>>
    /\ UNCHANGED <<backendVars, runVars, sessionVars, searchVars, cmdVars, promptVars, linkVars, lookupVars, raceVars>>

ReadyNext ==
    \/ Routes
    \/ WaitForReady
    \/ Poll
    \/ Sleep
    \/ Summary

\* ------------------------------------------------------------------------
\* DeployCommand::run: the login, then deploy_cloud up to the push
\* ------------------------------------------------------------------------
\* a --link argument as typed: whether it has a ':', the text before it,
\* whether the rest has a '=', and the texts on both sides of it
LinkString(colon, resource_str, equals, label, resource) ==
    [colon |-> colon, resource_str |-> resource_str, equals |-> equals,
     label |-> label, resource |-> resource]

LinkStrings ==
    {LinkString(TRUE, "sqlite", TRUE, "default", "r1"),
     LinkString(TRUE, "sqlite", TRUE, " default ", "r2"),
     LinkString(TRUE, "kv", TRUE, "default", "r1"),
     LinkString(FALSE, "sqlite", FALSE, "", ""),
     LinkString(TRUE, "sqlite", FALSE, "", ""),
     LinkString(TRUE, "db", TRUE, "default", "r1")}

\* str::trim on the texts above
trim(x) == IF x = " default " THEN "default" ELSE x

\* impl FromStr for LinkageSpec
LinkageSpec_from_str(x) ==
    IF ~x.colon THEN Err("link syntax")
    ELSE IF ~x.equals THEN Err("link syntax")
    ELSE CASE x.resource_str = "sqlite" ->
                Ok(LinkageSpec(trim(x.label), trim(x.resource), Database))
           [] x.resource_str = "kv" ->
                Ok(LinkageSpec(trim(x.label), trim(x.resource), KeyValueStore))
           [] OTHER -> Err("link syntax")

\* parse_linkage_specs over the arguments as typed: each is parsed and
\* added in turn, the first error ends the loop
RECURSIVE parse_link_strings(_)
parse_link_strings(ls) ==
    IF ls = <<>>
    THEN [ok |-> TRUE, strategy |-> Scripted(EmptyMap, EmptyMap), error |-> "-"]
    ELSE LET before == parse_link_strings(SubSeq(ls, 1, Len(ls) - 1))
             link == LinkageSpec_from_str(ls[Len(ls)])
         IN  IF ~before.ok THEN before
             ELSE IF ~link.ok
             THEN [ok |-> FALSE, strategy |-> before.strategy, error |-> link.val]
             ELSE LET added == set_label_action(before.strategy, link.val.label,
                                                link.val.resource_name,
                                                link.val.resource_type)
                  IN  [ok |-> added.ok, strategy |-> added.strategy,
                       error |-> IF added.ok THEN "-" ELSE "duplicate label"]

\* DeployCommand::interaction_strategy over the arguments as typed
interaction_strategy_of(ls) ==
    IF ls = <<>> THEN [ok |-> TRUE, strategy |-> Interactive, error |-> "-"]
    ELSE parse_link_strings(ls)

\* an app name, character by character
NameStrings == {<<"b">>, <<"b", "-", "1">>, <<"b", "/", "g">>, <<>>}

\* SAFE_APP_NAME: one or more letters, numbers, dashes and underscores
check_safe_app_name(name) ==
    /\ name # <<>>
    /\ \A i \in DOMAIN name : name[i] \in {"-", "_", "b", "g", "1"}

\* where the application is loaded from
Sources == {"file", "registry"}

\* a step of deploy_cloud: what it is, whether it goes over the network,
\* whether it succeeded
CmdEv(op, net, ok) == [op |-> op, net |-> net, ok |-> ok]

\* a step `..?` of deploy_cloud: recorded, and either the next step or
\* the error returned
CmdStep(ev, cause, next) ==
    /\ cmd_log' = Append(cmd_log, ev)
    /\ IF ev.ok
       THEN cpc' = next /\ UNCHANGED cmd_result
       ELSE cpc' = "done" /\ cmd_result' = Err(cause)

CmdIdle ==
    /\ cpc = "idle"
    /\ cmd_log = <<>>
    /\ cmd_result = NoResult

\* run is called (without --build); the store holds no session, a broken
\* file, a fresh session, or an expired one with or without refresh token
CommandInit ==
    /\ env \in {None} \cup {Some(n) : n \in EnvNames}
    /\ now = 0
    /\ \E mine \in {None, Some(BrokenJson)}
                \cup {Some(to_json(LoginConnection(DEFAULT_CLOUD_URL, FALSE, "t1", r, e))) :
                        r \in {None, Some("rt1")},
                        e \in {None, Some(Exp(0, 0, TRUE)), Some(Exp(MaxTime, 0, TRUE))}} :
         files = [f \in FileStems |-> IF f = config_file_path(env) THEN mine ELSE None]
    /\ files0 = files
    /\ lpc = "start"
    /\ login_connection = None
    /\ expired = "-"
    /\ outcome = "-"
    /\ stderr = NoAdvice
    /\ netlog = <<>>
    /\ cpc = "login_connection"
    /\ cmd_log = <<>>
    /\ cmd_result = NoResult

\* run: `login_connection(..).await?` did not give a session
LoginFailed ==
    /\ cpc = "login_connection"
    /\ lpc = "done"
    /\ outcome # "Ok"
    /\ cmd_result' = Err("login")
    /\ cpc' = "done"
    /\ UNCHANGED cmd_log
    /\ UNCHANGED <<backendVars, runVars, sessionVars, searchVars, readyVars, promptVars, linkVars, lookupVars, raceVars>>

\* run: deploy_cloud is called with the session;
\* `self.interaction_strategy()?` on the --link arguments of the command
InteractionStrategy ==
    /\ cpc = "login_connection"
    /\ lpc = "done"
    /\ outcome = "Ok"
    /\ \E ls \in UNION {[1..k -> LinkStrings] : k \in 0..MaxLinkStrings} :
        CmdStep(CmdEv("interaction_strategy", FALSE, interaction_strategy_of(ls).ok),
                interaction_strategy_of(ls).error, "load_cloud_app")
    /\ UNCHANGED <<backendVars, runVars, sessionVars, searchVars, readyVars, promptVars, linkVars, lookupVars, raceVars>>

\* load_cloud_app: from a file, or from a registry over the network
LoadCloudApp ==
    /\ cpc = "load_cloud_app"
    /\ \E source \in Sources, ok \in BOOLEAN :
        CmdStep(CmdEv("load_cloud_app", source = "registry", ok), "load",
                "validate_cloud_app")
    /\ UNCHANGED <<backendVars, runVars, sessionVars, searchVars, readyVars, promptVars, linkVars, lookupVars, raceVars>>

\* validate_cloud_app: the name of the application loaded
ValidateCloudApp ==
    /\ cpc = "validate_cloud_app"
    /\ \E name \in NameStrings :
        CmdStep(CmdEv("validate_cloud_app", FALSE, check_safe_app_name(name)),
                "app name", "validate_deployment_environment")
    /\ UNCHANGED <<backendVars, runVars, sessionVars, searchVars, readyVars, promptVars, linkVars, lookupVars, raceVars>>

\* validate_deployment_environment: variables the command line does not
\* provide are looked up in the cloud
ValidateDeploymentEnvironment ==
    /\ cpc = "validate_deployment_environment"
    /\ \E unprovided \in BOOLEAN, ok \in BOOLEAN :
        /\ ~unprovided => ok
        /\ CmdStep(CmdEv("validate_deployment_environment", unprovided, ok),
                   "variables", "push_oci")
    /\ UNCHANGED <<backendVars, runVars, sessionVars, searchVars, readyVars, promptVars, linkVars, lookupVars, raceVars>>

\* push_oci; deploy_cloud goes on with get_app_id
PushOci ==
    /\ cpc = "push_oci"
    /\ \E ok \in BOOLEAN :
        CmdStep(CmdEv("push_oci", TRUE, ok), "push", "get_app_id")
    /\ UNCHANGED <<backendVars, runVars, sessionVars, searchVars, readyVars, promptVars, linkVars, lookupVars, raceVars>>

CommandNext ==
    \/ LoginConnectionStart
    \/ LoginMissing
    \/ RefreshToken
    \/ LoginExpired
    \/ LoginFailed
    \/ InteractionStrategy
    \/ LoadCloudApp
    \/ ValidateCloudApp
    \/ ValidateDeploymentEnvironment
    \/ PushOci

\* ------------------------------------------------------------------------
\* The prompts of the Interactive strategy
\* ------------------------------------------------------------------------
\* the operator gives no answer (Esc, end of input); the terminal fails
NoAnswer == "<no answer>"
TerminalError == "<error>"

\* the names RandomNameGenerator proposes
GeneratedNames == {"r2", "g1"}

\* the resource lists of a prompt: names without repetition, in any order
NameLists ==
    {<<>>} \cup {<<n>> : n \in ResNames}
        \cup {q \in [1..2 -> ResNames] : q[1] # q[2]}

DialogEv(prompt, answer) == [prompt |-> prompt, answer |-> answer]

\* what a prompt leads to: the next prompt, or the value returned
PromptStep(next, sel) == [next |-> next, sel |-> sel]

\* Interactive::prompt_resource_selection: the Select between "use an
\* existing" and "create a new", read with interact_opt()?
on_choice(answer) ==
    CASE answer = TerminalError -> PromptStep("done", Failed)
      [] answer = NoAnswer -> PromptStep("done", Cancelled)
      [] answer = "existing" -> PromptStep("prompt_for_existing_resource", NoSelection)
      [] OTHER -> PromptStep("prompt_link_to_new_resource", NoSelection)

\* Interactive::prompt_for_existing_resource: the Select over the names,
\* read with interact_opt()?
on_existing(answer) ==
    CASE answer = TerminalError -> PromptStep("done", Failed)
      [] answer = NoAnswer -> PromptStep("done", Cancelled)
      [] OTHER -> PromptStep("done", Existing(answer))

\* Interactive::prompt_link_to_new_resource: the Input with a generated
\* default, read with interact_text()?: it has no answer but a text, and
\* an input that ends without one is an error of the terminal
on_name(answer) ==
    CASE answer = TerminalError -> PromptStep("done", Failed)
      [] answer = NoAnswer -> PromptStep("done", Failed)
      [] OTHER -> PromptStep("done", New(answer))

PromptIdle ==
    /\ ppc = "idle"
    /\ listed = <<>>
    /\ prompt_for = Pair("-", "-")
    /\ dialog = <<>>
    /\ prompted = NoSelection

\* the strategy is asked about a label, with the resources of its kind
PromptInit ==
    /\ ppc = "prompt_resource_selection"
    /\ listed \in NameLists
    /\ prompt_for \in {Pair(l, Database) : l \in DbLabelUniverse}
                        \cup {Pair(l, KeyValueStore) : l \in KvLabelUniverse}
    /\ dialog = <<>>
    /\ prompted = NoSelection

\* the first prompt
PromptChoice ==
    /\ ppc = "prompt_resource_selection"
    /\ \E answer \in {TerminalError, NoAnswer, "existing", "new"} :
        /\ dialog' = Append(dialog, DialogEv("existing or new", answer))
        /\ ppc' = on_choice(answer).next
        /\ prompted' = on_choice(answer).sel
    /\ UNCHANGED <<listed, prompt_for>>
    /\ UNCHANGED <<backendVars, runVars, sessionVars, searchVars, readyVars, cmdVars, linkVars, lookupVars, raceVars>>

\* the prompt for one of the names listed.  A Select without items fails.
PromptForExistingResource ==
    /\ ppc = "prompt_for_existing_resource"
    /\ \E answer \in (IF listed = <<>> THEN {TerminalError}
                      ELSE {TerminalError, NoAnswer}
                              \cup {listed[i] : i \in DOMAIN listed}) :
        /\ dialog' = Append(dialog, DialogEv("which resource", answer))
        /\ ppc' = on_existing(answer).next
        /\ prompted' = on_existing(answer).sel
    /\ UNCHANGED <<listed, prompt_for>>
    /\ UNCHANGED <<backendVars, runVars, sessionVars, searchVars, readyVars, cmdVars, linkVars, lookupVars, raceVars>>

\* the prompt for the name of a new resource: the generator finds a
\* name that is not taken or gives up; the operator types a name, accepts
\* the default, or ends the input
PromptLinkToNewResource ==
    /\ ppc = "prompt_link_to_new_resource"
    /\ \E default_name \in {None} \cup
            {Some(n) : n \in GeneratedNames \ {listed[i] : i \in DOMAIN listed}} :
        IF default_name = None
        THEN \* .context("could not generate unique name")?
             /\ dialog' = dialog
             /\ ppc' = "done"
             /\ prompted' = Failed
        ELSE \E answer \in {TerminalError, NoAnswer, default_name[1]} \cup ResNames :
                /\ dialog' = Append(dialog, DialogEv("what name", answer))
                /\ ppc' = on_name(answer).next
                /\ prompted' = on_name(answer).sel
    /\ UNCHANGED <<listed, prompt_for>>
    /\ UNCHANGED <<backendVars, runVars, sessionVars, searchVars, readyVars, cmdVars, linkVars, lookupVars, raceVars>>

PromptNext ==
    \/ PromptChoice
    \/ PromptForExistingResource
    \/ PromptLinkToNewResource

\* ------------------------------------------------------------------------
\* The link command
\* ------------------------------------------------------------------------
LinkCmd(kind, resource_name, a, label) ==
    [kind |-> kind, resource_name |-> resource_name, app |-> a, label |-> label]

\* a call of the command.  The listing records what the control plane held
\* when it was made: whether the resource existed, and whether the app
\* had the label linked to it.
LinkCall(op, res, label, a, exists, linked) ==
    [op |-> op, res |-> res, label |-> label, app |-> a,
     exists |-> exists, linked |-> linked]

\* find_resource_link: a link of the store with the label, whatever its app
find_resource_link(store, label) ==
    {Link("-", store.name, l.label, l.app_name) : l \in {x \in store.links : x.label = label}}

Decision(next, res, old) == [next |-> next, result |-> res, replaced |-> old]

\* link without its test that the resource exists
link_without_exists_test(resource_name, a, label, rs) ==
    LET stores_for_app == {d \in rs : \E l \in d.links : l.app_name = a}
        this_store == {d \in stores_for_app : d.name = resource_name}
        other_stores == stores_for_app \ this_store
        existing_link_for_store == UNION {find_resource_link(d, label) : d \in this_store}
        existing_link_for_other_store ==
            UNION {find_resource_link(d, label) : d \in other_stores}
    IN  IF existing_link_for_store # {}
        THEN {Decision("done", Err("already linked"), None)}
        ELSE IF existing_link_for_other_store # {}
        THEN {Decision("confirm", NoResult, Some(old)) : old \in existing_link_for_other_store}
        ELSE {Decision("create_link", NoResult, None)}

\* link, from the resources listed to its first prompt or call: the
\* outcomes (the stores are searched in the order listed, so that any
\* link found in another store may be the one offered for replacement)
link_command(resource_name, a, label, rs) ==
    LET stores_for_app == {d \in rs : \E l \in d.links : l.app_name = a}
        this_store == {d \in stores_for_app : d.name = resource_name}
        other_stores == stores_for_app \ this_store
        existing_link_for_store == UNION {find_resource_link(d, label) : d \in this_store}
        existing_link_for_other_store ==
            UNION {find_resource_link(d, label) : d \in other_stores}
    IN  IF ~\E d \in rs : d.name = resource_name
        THEN {Decision("done", Err("does not exist"), None)}
        ELSE IF existing_link_for_store # {}
        THEN {Decision("done", Err("already linked"), None)}
        ELSE IF existing_link_for_other_store # {}
        THEN {Decision("confirm", NoResult, Some(old)) : old \in existing_link_for_other_store}
        ELSE {Decision("create_link", NoResult, None)}

LinkIdle ==
    /\ link_pc = "idle"
    /\ link_cmd = LinkCmd("-", "-", "-", "-")
    /\ replaced = None
    /\ link_calls = <<>>
    /\ link_result = NoResult

\* the links an account may hold
AccountLinks ==
    {Link(Database, r, l, a) : r \in ResNames, l \in DbLabelUniverse, a \in (AppNames \cup {OtherApp})}

\* the command is run for an app of the account; the account holds some
\* resources and some links to them
LinkInit ==
    /\ apps = (AppNames \cup {OtherApp})
    /\ resources \in [ResourceType -> SUBSET ResNames]
    /\ \E ls \in SUBSET AccountLinks :
        /\ Cardinality(ls) <= MaxAccountLinks
        /\ \A y \in ls : y.res \in resources[y.kind]
        /\ links = SetToBag(ls)
    /\ link_pc = "link"
    /\ link_cmd \in {LinkCmd(k, r, a, l) :
                        k \in ResourceType, r \in ResNames, a \in AppNames,
                        l \in DbLabelUniverse}
    /\ replaced = None
    /\ link_calls = <<>>
    /\ link_result = NoResult

\* SqliteLinkCommand::link / KeyValueStoreLinkCommand::link: the resources
\* are listed, then link decides
LinkList ==
    /\ link_pc = "link"
    /\ LET c == link_cmd
           listing == LinkCall("get_resources", c.resource_name, c.label, c.app,
                               c.resource_name \in resources[c.kind],
                               BagIn(Link(c.kind, c.resource_name, c.label, c.app), links))
       IN \E ok \in BOOLEAN :
            /\ link_calls' = Append(link_calls, listing)
            /\ IF ~ok
               THEN /\ link_pc' = "done"
                    /\ link_result' = Err("could not fetch")
                    /\ UNCHANGED replaced
               ELSE \E d \in link_command(c.resource_name, c.app, c.label, get_resources(c.kind)) :
                    /\ link_pc' = d.next
                    /\ link_result' = d.result
                    /\ replaced' = d.replaced
    /\ UNCHANGED <<link_cmd>>
    /\ UNCHANGED <<backendVars, runVars, sessionVars, searchVars, readyVars, cmdVars,
                   promptVars, lookupVars, raceVars>>

\* the Confirm prompt, read with interact_opt()?: only a yes goes on
LinkConfirm ==
    /\ link_pc = "confirm"
    /\ \E answer \in {TerminalError, NoAnswer, "yes", "no"} :
        /\ link_calls' = Append(link_calls,
                LinkCall("confirm", replaced[1].res, replaced[1].label, replaced[1].app,
                         answer = "yes", FALSE))
        /\ CASE answer = TerminalError ->
                    link_pc' = "done" /\ link_result' = Err("terminal")
             [] answer = "yes" ->
                    link_pc' = "remove_link" /\ UNCHANGED link_result
             [] OTHER ->
                    link_pc' = "done" /\ link_result' = Ok("not updated")
    /\ UNCHANGED <<link_cmd, replaced>>
    /\ UNCHANGED <<backendVars, runVars, sessionVars, searchVars, readyVars, cmdVars,
                   promptVars, lookupVars, raceVars>>

\* remove_database_link / remove_key_value_store_link of the link replaced
RemoveLink ==
    /\ link_pc = "remove_link"
    /\ LET old == Link(link_cmd.kind, replaced[1].res, replaced[1].label, replaced[1].app)
       IN \E ok \in BOOLEAN :
            /\ ok => BagIn(old, links)
            /\ link_calls' = Append(link_calls,
                    LinkCall("remove_link", old.res, old.label, old.app, TRUE, TRUE))
            /\ IF ok
               THEN /\ links' = links (-) SetToBag({old})
                    /\ link_pc' = "create_link"
                    /\ UNCHANGED link_result
               ELSE /\ UNCHANGED links
                    /\ link_pc' = "done"
                    /\ link_result' = Err("remove_link")
    /\ UNCHANGED <<apps, resources, link_cmd, replaced>>
    /\ UNCHANGED <<runVars, sessionVars, searchVars, readyVars, cmdVars, promptVars, lookupVars, raceVars>>

\* create_database_link / create_key_value_store_link of the command's link
CreateLink ==
    /\ link_pc = "create_link"
    /\ LET c == link_cmd
       IN \E ok \in BOOLEAN :
            /\ ok => c.resource_name \in resources[c.kind]
            /\ link_calls' = Append(link_calls,
                    LinkCall("create_link", c.resource_name, c.label, c.app, TRUE, FALSE))
            /\ IF ok
               THEN /\ links' = links (+) SetToBag({Link(c.kind, c.resource_name,
                                                          c.label, c.app)})
                    /\ link_result' = Ok("linked")
               ELSE /\ UNCHANGED links
                    /\ link_result' = Err("create_link")
            /\ link_pc' = "done"
    /\ UNCHANGED <<apps, resources, link_cmd, replaced>>
    /\ UNCHANGED <<runVars, sessionVars, searchVars, readyVars, cmdVars, promptVars, lookupVars, raceVars>>

LinkNext ==
    \/ LinkList
    \/ LinkConfirm
    \/ RemoveLink
    \/ CreateLink

\* ------------------------------------------------------------------------
\* get_app_id on an account of any size
\* ------------------------------------------------------------------------
DEFAULT_APPLIST_PAGE_SIZE == 50

\* list_apps(page_size, None): the places of the list that are on the
\* first page
list_apps(page_size, n) == 1..(IF n < page_size THEN n ELSE page_size)

\* CloudClientExt::get_app_id: the app is looked for in the items of the
\* first page
get_app_id_first_page(at, n) ==
    IF at \in list_apps(DEFAULT_APPLIST_PAGE_SIZE, n) THEN "Some" ELSE "None"

LookupIdle ==
    /\ n_apps = 0
    /\ app_at = 0
    /\ gpc = "idle"
    /\ looked_up = "-"
    /\ arm = <<>>

\* the account has some apps; the app deployed is one of them, at some
\* place of the list, or is not
LookupInit ==
    /\ n_apps \in 0..MaxApps
    /\ app_at \in 0..n_apps
    /\ gpc = "get_app_id"
    /\ looked_up = "-"
    /\ arm = <<>>

\* deploy_cloud: `client.get_app_id(&name).await?`
GetAppId ==
    /\ gpc = "get_app_id"
    /\ \E ok \in BOOLEAN :
        IF ok
        THEN /\ looked_up' = get_app_id_first_page(app_at, n_apps)
             /\ gpc' = "match"
        ELSE /\ looked_up' = "Err"
             /\ gpc' = "done"
    /\ UNCHANGED <<n_apps, app_at, arm>>
    /\ UNCHANGED <<backendVars, runVars, sessionVars, searchVars, readyVars, cmdVars,
                   promptVars, linkVars, raceVars>>

\* deploy_cloud, the arm for Some(app_id): the resources of the app are
\* linked and a revision is added
ExistingArm ==
    /\ gpc = "match"
    /\ looked_up = "Some"
    /\ arm' = <<"create_and_link_resources_for_existing_app", "add_revision">>
    /\ gpc' = "done"
    /\ UNCHANGED <<n_apps, app_at, looked_up>>
    /\ UNCHANGED <<backendVars, runVars, sessionVars, searchVars, readyVars, cmdVars,
                   promptVars, linkVars, raceVars>>

\* deploy_cloud, the arm for None: resources are created and the app is
\* added
NewArm ==
    /\ gpc = "match"
    /\ looked_up = "None"
    /\ arm' = <<"create_resources_for_new_app", "add_app">>
    /\ gpc' = "done"
    /\ UNCHANGED <<n_apps, app_at, looked_up>>
    /\ UNCHANGED <<backendVars, runVars, sessionVars, searchVars, readyVars, cmdVars,
                   promptVars, linkVars, raceVars>>

LookupNext ==
    \/ GetAppId
    \/ ExistingArm
    \/ NewArm

\* the two runs
Runs == {1, 2}

\* no second deploy run is going on
RaceIdle ==
    /\ rpc = [r \in Runs |-> "idle"]
    /\ rsel = [r \in Runs |-> NoSelection]
    /\ rcalls = <<>>

\* no deploy command is running
NoRun ==
    /\ pc = "idle"
    /\ app = NoName
    /\ path = "-"
    /\ order = <<>>
    /\ idx = 0
    /\ interact = Interactive
    /\ link_args = <<>>
    /\ selection = NoSelection
    /\ resources_to_link = <<>>
    /\ key_values = 0
    /\ variables = 0
    /\ linkage = "-"
    /\ result = "-"
    /\ trace = <<>>
    /\ resources0 = [k \in ResourceType |-> {}]
    /\ links0 = EmptyBag

\* The account holds an app deployed earlier, with a database linked to it.
Init ==
    /\ apps = {OtherApp}
    /\ resources = [k \in ResourceType |-> IF k = Database THEN {"r1"} ELSE {}]
    /\ links = SetToBag({Link(Database, "r1", "default", OtherApp)})
    /\ NoRun
    /\ SessionIdle
    /\ SearchIdle
    /\ ReadyIdle
    /\ CmdIdle
    /\ PromptIdle
    /\ LinkIdle
    /\ LookupIdle
    /\ RaceIdle

\* deploy_cloud up to the match on get_app_id
StartDeploy ==
    /\ pc = "idle"
    /\ UNCHANGED <<sessionVars, searchVars, readyVars, cmdVars, promptVars, linkVars, lookupVars, raceVars>>
    /\ \E a \in AppNames, db_labels \in SUBSET DbLabelUniverse,
         kv_labels \in SUBSET KvLabelUniverse, ok \in BOOLEAN :
         \E ord \in label_types(db_labels, kv_labels),
            ls \in LinkArgs(db_labels, kv_labels) :
            /\ app' = a
            /\ order' = ord
            /\ link_args' = ls
            /\ key_values' = 0
            /\ variables' = 0
            /\ selection' = NoSelection
            /\ resources_to_link' = <<>>
            /\ resources0' = resources
            /\ links0' = links
            /\ IF ~interaction_strategy(ls).ok
               THEN \* `self.interaction_strategy()?`
                    /\ ok
                    /\ interact' = NoStrategy
                    /\ trace' = <<>>
                    /\ path' = "-"
                    /\ Goto([pc |-> "done", idx |-> 0, linkage |-> "-", result |-> "Err"])
               ELSE /\ interact' = interaction_strategy(ls).strategy
                    /\ trace' = <<Ev("get_app_id", "-", a, "-", "-")>>
                    /\ IF ok
                       THEN /\ path' = get_app_id(a)
                            /\ Goto(loop_next(get_app_id(a), ord, 0))
                       ELSE /\ path' = "-"
                            /\ Goto([pc |-> "done", idx |-> 0, linkage |-> "-",
                                     result |-> "Err"])
    /\ UNCHANGED backendVars

\* the new-app loop going on to the next label without creating the
\* resource of a New selection
new_app_skips_create(ord, i, s) ==
    CASE s.tag = "Err" -> loop_return("new", i, "Err")
      [] s.tag = "Cancelled" -> loop_return("new", i, "None")
      [] OTHER -> loop_next("new", ord, i)

\* create_resources_for_new_app: the match on the selection of pair i
new_app_on_selection(ord, i, s) ==
    CASE s.tag = "Err" -> loop_return("new", i, "Err")
      [] s.tag = "Cancelled" -> loop_return("new", i, "None")
      [] s.tag = "New" ->
            [pc |-> "create", idx |-> i, linkage |-> "running", result |-> "-"]
      [] OTHER -> loop_next("new", ord, i)

\* the match of the existing-app loop going on to the next label on Cancelled
existing_app_cancel_continues(ord, i, s) ==
    CASE s.tag = "Err" -> loop_return("existing", i, "Err")
      [] s.tag \in {"AlreadyLinked", "Cancelled"} -> loop_next("existing", ord, i)
      [] s.tag = "New" ->
            [pc |-> "create", idx |-> i, linkage |-> "running", result |-> "-"]
      [] OTHER ->
            [pc |-> "link", idx |-> i, linkage |-> "running", result |-> "-"]

\* the match of the existing-app loop linking a New selection as if the
\* resource existed
existing_app_new_links_only(ord, i, s) ==
    CASE s.tag = "Err" -> loop_return("existing", i, "Err")
      [] s.tag = "AlreadyLinked" -> loop_next("existing", ord, i)
      [] s.tag = "Cancelled" -> loop_return("existing", i, "None")
      [] OTHER ->
            [pc |-> "link", idx |-> i, linkage |-> "running", result |-> "-"]

\* create_and_link_resources_for_existing_app: the match on the selection
existing_app_on_selection(ord, i, s) ==
    CASE s.tag = "Err" -> loop_return("existing", i, "Err")
      [] s.tag = "AlreadyLinked" -> loop_next("existing", ord, i)
      [] s.tag = "Cancelled" -> loop_return("existing", i, "None")
      [] s.tag = "New" ->
            [pc |-> "create", idx |-> i, linkage |-> "running", result |-> "-"]
      [] OTHER ->
            [pc |-> "link", idx |-> i, linkage |-> "running", result |-> "-"]

\* a loop that deletes the resources it created when the operator cancels
cancelled_resources_rolled_back(rs, tr) ==
    [k \in ResourceType |->
        rs[k] \ {tr[i].res : i \in {j \in DOMAIN tr : tr[j].op = "create" /\ tr[j].kind = k}}]

\* the resources after `ResourceSelection::Cancelled => return Ok(None)`:
\* nothing is undone
cancelled_resources(rs, tr) == rs

\* one iteration of the linkage loop up to its mutating call: the listing,
\* the already-linked test and the strategy's answer
Resolve ==
    /\ pc = "resolve"
    /\ UNCHANGED <<sessionVars, searchVars, readyVars, cmdVars, promptVars, linkVars, lookupVars, raceVars>>
    /\ \E ok \in BOOLEAN :
        \E o \in (IF path = "existing"
                  THEN get_resource_selection_for_existing_app(
                            ok, app, order[idx].label, interact, order[idx].kind)
                  ELSE get_resource_selection_for_new_app(
                            ok, app, order[idx].label, interact, order[idx].kind)) :
            /\ trace' = trace \o o.evs
            /\ selection' = o.sel
            /\ IF path = "existing"
               THEN /\ Goto(existing_app_on_selection(order, idx, o.sel))
                    /\ UNCHANGED resources_to_link
               ELSE /\ Goto(new_app_on_selection(order, idx, o.sel))
                    /\ resources_to_link' =
                         IF o.sel.tag = "Existing"
                         THEN Append(resources_to_link,
                                     LinkageSpec(order[idx].label, o.sel.name,
                                                 order[idx].kind))
                         ELSE resources_to_link
            /\ resources' = IF o.sel.tag = "Cancelled"
                            THEN cancelled_resources(resources, trace)
                            ELSE resources
    /\ UNCHANGED <<apps, links, app, resources0, links0, path, order, interact, link_args,
                   key_values, variables>>

\* create_database / create_key_value_store for a New selection.  The
\* control plane refuses a name that is taken.
CreateResource ==
    /\ pc = "create"
    /\ UNCHANGED <<sessionVars, searchVars, readyVars, cmdVars, promptVars, linkVars, lookupVars, raceVars>>
    /\ LET kind == order[idx].kind
           label == order[idx].label
           name == selection.name
       IN \E ok \in BOOLEAN :
            /\ ok => name \notin resources[kind]
            /\ IF path = "existing"
               THEN /\ trace' = Append(trace, Ev("create", kind, name, label, "Some"))
                    /\ UNCHANGED resources_to_link
                    /\ IF ok
                       THEN /\ resources' = [resources EXCEPT ![kind] = @ \cup {name}]
                            /\ links' = links (+) SetToBag({Link(kind, name, label, app)})
                            /\ Goto(loop_next(path, order, idx))
                       ELSE /\ UNCHANGED <<resources, links>>
                            /\ Goto(loop_return(path, idx, "Err"))
               ELSE /\ trace' = Append(trace, Ev("create", kind, name, label, "None"))
                    /\ UNCHANGED links
                    /\ IF ok
                       THEN /\ resources' = [resources EXCEPT ![kind] = @ \cup {name}]
                            /\ resources_to_link' =
                                 Append(resources_to_link, LinkageSpec(label, name, kind))
                            /\ Goto(loop_next(path, order, idx))
                       ELSE /\ UNCHANGED <<resources, resources_to_link>>
                            /\ Goto(loop_return(path, idx, "Err"))
    /\ UNCHANGED <<apps, app, resources0, links0, path, order, interact, link_args, selection,
                   key_values, variables>>

\* create_database_link / create_key_value_store_link for an Existing
\* selection of an existing app
LinkExisting ==
    /\ pc = "link"
    /\ UNCHANGED <<sessionVars, searchVars, readyVars, cmdVars, promptVars, linkVars, lookupVars, raceVars>>
    /\ LET kind == order[idx].kind
           label == order[idx].label
           name == selection.name
       IN \E ok \in BOOLEAN :
            /\ ok => name \in resources[kind]
            /\ trace' = Append(trace, Ev("create_link", kind, name, label, app))
            /\ IF ok
               THEN /\ links' = links (+) SetToBag({Link(kind, name, label, app)})
                    /\ Goto(loop_next(path, order, idx))
               ELSE /\ UNCHANGED links
                    /\ Goto(loop_return(path, idx, "Err"))
    /\ UNCHANGED <<apps, resources, app, resources0, links0, path, order, interact, link_args,
                   selection,
                   resources_to_link, key_values, variables>>

\* deploy_cloud after add_revision: the --key-value pairs, the variables,
\* then get_app
after_revision(kvs, vs) ==
    IF kvs > 0 THEN "key_values" ELSE IF vs > 0 THEN "variables" ELSE "get_app"

\* add_app of the new-app arm
AddApp ==
    /\ pc = "add_app"
    /\ UNCHANGED <<sessionVars, searchVars, readyVars, cmdVars, promptVars, linkVars, lookupVars, raceVars>>
    /\ \E ok \in BOOLEAN :
        /\ ok => app \notin apps
        /\ trace' = Append(trace, Ev("add_app", "-", app, "-", "-"))
        /\ IF ok
           THEN /\ apps' = apps \cup {app}
                /\ pc' = IF resources_to_link = <<>> THEN "add_revision"
                         ELSE "link_resources"
                /\ UNCHANGED result
           ELSE /\ UNCHANGED apps
                /\ pc' = "done"
                /\ result' = "Err"
    /\ UNCHANGED <<resources, links, app, resources0, links0, path, order, idx, interact, link_args,
                   selection, resources_to_link, key_values, variables, linkage>>

\* link_resources: one create-link call per linkage
LinkResources ==
    /\ pc = "link_resources"
    /\ UNCHANGED <<sessionVars, searchVars, readyVars, cmdVars, promptVars, linkVars, lookupVars, raceVars>>
    /\ LET link == Head(resources_to_link)
       IN \E ok \in BOOLEAN :
            /\ ok => link.resource_name \in resources[link.resource_type]
            /\ trace' = Append(trace, Ev("create_link", link.resource_type,
                                         link.resource_name, link.label, app))
            /\ IF ok
               THEN /\ links' = links (+) SetToBag({Link(link.resource_type,
                                        link.resource_name, link.label, app)})
                    /\ resources_to_link' = Tail(resources_to_link)
                    /\ pc' = IF Tail(resources_to_link) = <<>> THEN "add_revision"
                             ELSE "link_resources"
                    /\ UNCHANGED result
               ELSE /\ UNCHANGED <<links, resources_to_link>>
                    /\ pc' = "done"
                    /\ result' = "Err"
    /\ UNCHANGED <<apps, resources, app, resources0, links0, path, order, idx, interact, link_args,
                   selection, key_values, variables, linkage>>

\* add_revision, in both arms.  The version of an app deployed before may
\* be one that is registered already: the call is made all the same, and
\* whatever the control plane answers, an error is returned with `?`.
\* The --key-value and --variable pairs of
\* the command line are first read after it: they are drawn here.  Pairs
\* for the default store need an app that declares it (deploy_cloud bails
\* out before "Deploying..." otherwise).
AddRevision ==
    /\ pc = "add_revision"
    /\ UNCHANGED <<sessionVars, searchVars, readyVars, cmdVars, promptVars, linkVars, lookupVars, raceVars>>
    /\ \E ok \in BOOLEAN, registered \in BOOLEAN, kvs \in 0..MaxPairs,
         vs \in 0..MaxPairs :
        /\ registered => path = "existing"
        /\ kvs > 0 => \E i \in DOMAIN order :
                        order[i] = Pair(SPIN_DEFAULT_KV_STORE, KeyValueStore)
        /\ trace' = Append(trace, Ev("add_revision", "-", app, "-",
                                     IF registered THEN "duplicate" ELSE "-"))
        /\ IF ok
           THEN /\ key_values' = kvs
                /\ variables' = vs
                /\ pc' = after_revision(kvs, vs)
                /\ UNCHANGED result
           ELSE /\ kvs = 0 /\ vs = 0
                /\ UNCHANGED <<key_values, variables>>
                /\ pc' = "done"
                /\ result' = "Err"
    /\ UNCHANGED <<backendVars, app, resources0, links0, path, order, idx, interact,
                   link_args, selection,
                   resources_to_link, linkage>>

\* add_key_value_pair for one --key-value pair
AddKeyValuePair ==
    /\ pc = "key_values"
    /\ UNCHANGED <<sessionVars, searchVars, readyVars, cmdVars, promptVars, linkVars, lookupVars, raceVars>>
    /\ \E ok \in BOOLEAN :
        /\ trace' = Append(trace, Ev("add_key_value_pair", KeyValueStore, "-",
                                     SPIN_DEFAULT_KV_STORE, app))
        /\ IF ok
           THEN /\ key_values' = key_values - 1
                /\ pc' = after_revision(key_values - 1, variables)
                /\ UNCHANGED result
           ELSE /\ UNCHANGED key_values
                /\ pc' = "done"
                /\ result' = "Err"
    /\ UNCHANGED <<backendVars, app, resources0, links0, path, order, idx, interact,
                   link_args, selection,
                   resources_to_link, variables, linkage>>

\* set_variables: add_variable_pair for one --variable pair
SetVariables ==
    /\ pc = "variables"
    /\ UNCHANGED <<sessionVars, searchVars, readyVars, cmdVars, promptVars, linkVars, lookupVars, raceVars>>
    /\ \E ok \in BOOLEAN :
        /\ trace' = Append(trace, Ev("add_variable_pair", "-", "-", "-", app))
        /\ IF ok
           THEN /\ variables' = variables - 1
                /\ pc' = after_revision(0, variables - 1)
                /\ UNCHANGED result
           ELSE /\ UNCHANGED variables
                /\ pc' = "done"
                /\ result' = "Err"
    /\ UNCHANGED <<backendVars, app, resources0, links0, path, order, idx, interact,
                   link_args, selection,
                   resources_to_link, key_values, linkage>>

\* get_app, the readiness wait of an app with HTTP routes, the summary
Finish ==
    /\ pc = "get_app"
    /\ UNCHANGED <<sessionVars, searchVars, readyVars, cmdVars, promptVars, linkVars, lookupVars, raceVars>>
    /\ \E ok \in BOOLEAN, routes \in BOOLEAN :
        /\ IF ok
           THEN /\ trace' = trace \o <<Ev("get_app", "-", app, "-", "-")>> \o
                              (IF routes
                               THEN <<Ev("wait_for_ready", "-", app, "-", "-")>>
                               ELSE <<>>)
                /\ result' = "Ok"
           ELSE /\ routes
                /\ trace' = Append(trace, Ev("get_app", "-", app, "-", "-"))
                /\ result' = "Err"
        /\ pc' = "done"
    /\ UNCHANGED <<backendVars, app, resources0, links0, path, order, idx, interact,
                   link_args, selection,
                   resources_to_link, key_values, variables, linkage>>

\* the command has returned and its process ends
Exit ==
    /\ pc = "done"
    /\ UNCHANGED <<sessionVars, searchVars, readyVars, cmdVars, promptVars, linkVars, lookupVars, raceVars>>
    /\ pc' = "idle"
    /\ app' = NoName
    /\ path' = "-"
    /\ order' = <<>>
    /\ idx' = 0
    /\ interact' = Interactive
    /\ link_args' = <<>>
    /\ selection' = NoSelection
    /\ resources_to_link' = <<>>
    /\ key_values' = 0
    /\ variables' = 0
    /\ linkage' = "-"
    /\ result' = "-"
    /\ trace' = <<>>
    /\ resources0' = [k \in ResourceType |-> {}]
    /\ links0' = EmptyBag
    /\ UNCHANGED backendVars

\* ------------------------------------------------------------------------
\* Two deploy runs on one app
\* ------------------------------------------------------------------------
\* the app both runs deploy, and the label both are at
RaceApp == "blog"
RacePair == Pair("default", Database)

\* a call or prompt of one of the runs
RunEv(r, e) == [run |-> r, ev |-> e]

RECURSIVE RunEvs(_, _)
RunEvs(r, evs) ==
    IF evs = <<>> THEN <<>> ELSE <<RunEv(r, evs[1])>> \o RunEvs(r, Tail(evs))

\* the strategies of a run at the label
RaceStrategies ==
    {Interactive} \cup {Scripted((RacePair.label :> n), EmptyMap) : n \in ResNames}

\* where a run is after the match on its selection: at its create call, at
\* its link call, or past the label
after_selection(s) ==
    LET c == existing_app_on_selection(<<RacePair>>, 1, s).pc
    IN  IF c \in {"create", "link"} THEN c ELSE "done"

\* the app exists and has no link for the label; both runs have found the
\* app and are at the label
RaceInit ==
    /\ apps = AppNames \cup {OtherApp}
    /\ resources \in [ResourceType -> SUBSET ResNames]
    /\ links \in {EmptyBag} \cup
                 {SetToBag({Link(RacePair.kind, n, RacePair.label, OtherApp)}) :
                    n \in resources[RacePair.kind]}
    /\ rpc = [r \in Runs |-> "resolve"]
    /\ rsel = [r \in Runs |-> NoSelection]
    /\ rcalls = <<>>

\* get_resource_selection_for_existing_app of one run, and the match on
\* what it returned
RaceResolve ==
    /\ \E r \in Runs :
        /\ rpc[r] = "resolve"
        /\ \E ok \in BOOLEAN, strategy \in RaceStrategies :
            \E o \in get_resource_selection_for_existing_app(
                        ok, RaceApp, RacePair.label, strategy, RacePair.kind) :
                /\ rsel' = [rsel EXCEPT ![r] = o.sel]
                /\ rpc' = [rpc EXCEPT ![r] = after_selection(o.sel)]
                /\ rcalls' = rcalls \o RunEvs(r, o.evs)
    /\ UNCHANGED backendVars
    /\ UNCHANGED <<runVars, sessionVars, searchVars, readyVars, cmdVars, promptVars,
                   linkVars, lookupVars>>

\* create_database(resource, Some(resource_label)) of one run
RaceCreate ==
    /\ \E r \in Runs :
        /\ rpc[r] = "create"
        /\ \E ok \in BOOLEAN :
            /\ ok => rsel[r].name \notin resources[RacePair.kind]
            /\ rcalls' = Append(rcalls,
                    RunEv(r, Ev("create", RacePair.kind, rsel[r].name, RacePair.label,
                                "Some")))
            /\ IF ok
               THEN /\ resources' = [resources EXCEPT ![RacePair.kind] = @ \cup {rsel[r].name}]
                    /\ links' = links (+) SetToBag({Link(RacePair.kind, rsel[r].name,
                                                          RacePair.label, RaceApp)})
               ELSE UNCHANGED <<resources, links>>
            /\ rpc' = [rpc EXCEPT ![r] = "done"]
    /\ UNCHANGED <<apps, rsel>>
    /\ UNCHANGED <<runVars, sessionVars, searchVars, readyVars, cmdVars, promptVars,
                   linkVars, lookupVars>>

\* create_database_link(&r, resource_label) of one run
RaceLink ==
    /\ \E r \in Runs :
        /\ rpc[r] = "link"
        /\ \E ok \in BOOLEAN :
            /\ ok => rsel[r].name \in resources[RacePair.kind]
            /\ rcalls' = Append(rcalls,
                    RunEv(r, Ev("create_link", RacePair.kind, rsel[r].name,
                                RacePair.label, RaceApp)))
            /\ IF ok
               THEN links' = links (+) SetToBag({Link(RacePair.kind, rsel[r].name,
                                                       RacePair.label, RaceApp)})
               ELSE UNCHANGED links
            /\ rpc' = [rpc EXCEPT ![r] = "done"]
    /\ UNCHANGED <<apps, resources, rsel>>
    /\ UNCHANGED <<runVars, sessionVars, searchVars, readyVars, cmdVars, promptVars,
                   linkVars, lookupVars>>

RaceNext ==
    \/ RaceResolve
    \/ RaceCreate
    \/ RaceLink

\* ------------------------------------------------------------------------
\* Properties of the linkage engine and of deploy_cloud
\* ------------------------------------------------------------------------
Positions == DOMAIN trace
LinkageOps == {"get_resources", "create", "create_link"}
ActivationOps == {"add_revision", "add_key_value_pair", "add_variable_pair",
                  "wait_for_ready"}
SamePair(e, f) == e.label = f.label /\ e.kind = f.kind
AllApps == AppNames \cup {OtherApp}
AllLabels == DbLabelUniverse \cup KvLabelUniverse

\* C1: idempotent re-link.  For an existing app, a label whose listing was
\* made while the app already had a link (label, kind) gets no prompt, no
\* create call and no link call in that run.
C1_IdempotentRelink ==
    path = "existing" =>
        \A i \in Positions :
            (trace[i].op = "get_resources" /\ trace[i].ans = "linked") =>
                \A j \in Positions :
                    trace[j].op \in {"prompt", "create", "create_link"} =>
                        ~SamePair(trace[i], trace[j])

\* a finished run on an existing app that found a label already linked
C1_Witness ==
    /\ path = "existing"
    /\ pc = "done"
    /\ result = "Ok"
    /\ \E i \in Positions : trace[i].op = "get_resources" /\ trace[i].ans = "linked"

\* C2: cancellation short-circuit.  Once the strategy has answered Cancelled
\* for the k-th pair, the linkage function has returned Ok(None), the trace
\* holds no list, create or link call after that prompt, and no linkage
\* call or prompt at all for a pair after the k-th.
C2_CancelShortCircuit ==
    \A i \in Positions :
        (trace[i].op = "prompt" /\ trace[i].ans = "Cancelled") =>
            /\ linkage = "None"
            /\ order[idx] = Pair(trace[i].label, trace[i].kind)
            /\ \A j \in Positions : (j > i) => trace[j].op \notin LinkageOps \cup {"prompt"}
            /\ \A k \in DOMAIN order : (k > idx) =>
                  \A j \in Positions :
                      trace[j].op \in LinkageOps \cup {"prompt"} =>
                          Pair(trace[j].label, trace[j].kind) # order[k]

\* the second of three labels was cancelled and the command has returned
C2_Witness ==
    /\ linkage = "None"
    /\ Len(order) = 3
    /\ idx = 2
    /\ pc = "done"
    /\ path = "existing"

\* C3, as claimed: after a cancelled linkage of an existing app no
\* activation step is made.
C3_ExistingCancelStops ==
    (path = "existing" /\ linkage = "None") =>
        \A j \in Positions : trace[j].op \notin ActivationOps

\* C4: a cancelled linkage of a new app ends deploy_cloud with Ok, and the
\* run calls neither add_app nor a link call nor an activation step.
C4_NewCancelStops ==
    (path = "new" /\ linkage = "None") =>
        /\ pc = "done"
        /\ result = "Ok"
        /\ \A j \in Positions :
              trace[j].op \notin ActivationOps \cup {"add_app", "create_link"}

\* a new app whose second label was cancelled after a resource was created
C4_Witness ==
    /\ path = "new"
    /\ linkage = "None"
    /\ idx = 2
    /\ \E j \in Positions : trace[j].op = "create"

\* C5: no app has two live links for the same label and kind.
C5_NoTwoLiveLinks ==
    \A a \in AllApps, l \in AllLabels, k \in ResourceType : LiveLinks(a, l, k) <= 1

\* a redeploy of an app that is linked has linked one more label
C5_Witness ==
    /\ path = "existing"
    /\ pc = "done"
    /\ result = "Ok"
    /\ \E i, j \in Positions :
          /\ trace[i].op = "get_resources" /\ trace[i].ans = "linked"
          /\ trace[j].op = "create_link"
    /\ LiveLinks(app, "default", Database) = 1
    /\ LiveLinks(app, "finance", Database) = 1

\* C6: check before create.  For an existing app every prompt, create call
\* and link call of a label comes after the listing made for that label.
C6_CheckBeforeCreate ==
    path = "existing" =>
        \A j \in Positions :
            trace[j].op \in {"prompt", "create", "create_link"} =>
                \E i \in Positions :
                    /\ i < j
                    /\ trace[i].op = "get_resources"
                    /\ SamePair(trace[i], trace[j])

\* an existing app got a resource created and another one linked
C6_Witness ==
    /\ path = "existing"
    /\ \E i, j \in Positions : trace[i].op = "create" /\ trace[j].op = "create_link"

\* ------------------------------------------------------------------------
\* Properties of the session store (SessionSpec)
\* ------------------------------------------------------------------------
\* the stem of the file of the command's environment
EnvStem == IF env = None THEN "config" ELSE env[1]

\* the JSON object j stores exactly the record c
Stores(j, c) ==
    /\ {"url", "danger_accept_invalid_certs", "token"} \subseteq DOMAIN j
    /\ j["url"] = c.url
    /\ j["danger_accept_invalid_certs"] = c.danger_accept_invalid_certs
    /\ j["token"] = c.token
    /\ IF c.refresh_token = None THEN "refresh_token" \notin DOMAIN j
       ELSE "refresh_token" \in DOMAIN j /\ j["refresh_token"] = c.refresh_token[1]
    /\ IF c.expiration = None THEN "expiration" \notin DOMAIN j
       ELSE "expiration" \in DOMAIN j /\ j["expiration"] = c.expiration[1]

\* the index of the last successful read of the session file before event i
ReadBefore(i) ==
    CHOOSE k \in 1..(i - 1) :
        /\ netlog[k].op = "read" /\ netlog[k].res # None
        /\ \A m \in (k + 1)..(i - 1) : netlog[m].op # "read"

FailedCalls(op) == {i \in DOMAIN netlog : netlog[i].op = op /\ netlog[i].res = None}
SucceededCalls(op) == {i \in DOMAIN netlog : netlog[i].op = op /\ netlog[i].res # None}

\* minutes between the instant an expiration string denotes and the clock
Remaining(e) == e.expiration[1].t - e.expiration[1].off - e.now

\* the renewal tests that found a session without refresh token in need of
\* renewal
ExpiredNoRefresh ==
    {i \in DOMAIN netlog :
        /\ netlog[i].op = "needs_renewal" /\ netlog[i].res = "true"
        /\ "refresh_token" \notin DOMAIN netlog[ReadBefore(i)].res[1]}

\* C7: needs_renewal answers true exactly when an expiration is stored and
\* less than 5 minutes remain until it (an expiration already past
\* included), and false when at least 5 minutes remain or no expiration is
\* stored; the local `expired` holds the answer of the last test.
C7_RenewalThreshold ==
    /\ \A i \in DOMAIN netlog : netlog[i].op = "needs_renewal" =>
        /\ netlog[i].res = "true" <=>
              /\ netlog[i].expiration # None
              /\ netlog[i].expiration[1].valid
              /\ Remaining(netlog[i]) < 5
        /\ netlog[i].res = "false" <=>
              \/ netlog[i].expiration = None
              \/ /\ netlog[i].expiration[1].valid
                 /\ Remaining(netlog[i]) >= 5
    /\ expired # "-" =>
            /\ netlog # <<>>
            /\ \E i \in DOMAIN netlog :
                /\ netlog[i].op = "needs_renewal" /\ netlog[i].res = expired
                /\ \A m \in (i + 1)..Len(netlog) : netlog[m].op # "needs_renewal"

\* a session with 4 minutes remaining, stamped at a UTC offset, was tested
\* and needs renewal
C7_Witness ==
    \E i \in DOMAIN netlog :
        /\ netlog[i].op = "needs_renewal"
        /\ netlog[i].expiration # None
        /\ netlog[i].expiration[1].valid
        /\ netlog[i].expiration[1].off # 0
        /\ Remaining(netlog[i]) = 4
        /\ netlog[i].res = "true"
        /\ expired = "true"

\* C8: after a successful refresh login_connection returns Ok with the
\* token, refresh token and expiration of the response and the url and
\* insecure flag it had loaded, the file of the command's environment
\* (config for none, the name for a named one) stores exactly that record,
\* and no other file has changed.
C8_RefreshSuccess ==
    \A i \in SucceededCalls("refresh_token") :
        /\ i = Len(netlog)
        /\ lpc = "done" /\ outcome = "Ok"
        /\ login_connection # None
        /\ login_connection[1].token = netlog[i].res[1].token
        /\ login_connection[1].refresh_token = Some(netlog[i].res[1].refresh_token)
        /\ login_connection[1].expiration = Some(netlog[i].res[1].expiration)
        /\ login_connection[1].url = netlog[ReadBefore(i)].res[1]["url"]
        /\ login_connection[1].danger_accept_invalid_certs =
                netlog[ReadBefore(i)].res[1]["danger_accept_invalid_certs"]
        /\ netlog[ReadBefore(i)].file = EnvStem
        /\ files[EnvStem] # None
        /\ Stores(files[EnvStem][1], login_connection[1])
        /\ \A f \in FileStems \ {EnvStem} : files[f] = files0[f]

\* a named environment's session with a non-default url was refreshed to a
\* different token
C8_Witness ==
    /\ env # None
    /\ \E i \in SucceededCalls("refresh_token") :
        /\ netlog[ReadBefore(i)].res[1]["token"] # netlog[i].res[1].token
        /\ netlog[ReadBefore(i)].res[1]["url"] # DEFAULT_CLOUD_URL
        /\ netlog[ReadBefore(i)].res[1]["danger_accept_invalid_certs"]
    /\ files[EnvStem] # files0[EnvStem]
    /\ outcome = "Ok"

\* C9: a failed refresh is the last thing login_connection does: it is the
\* only refresh of the run, no login follows it, the command exits with
\* status 1 after advising to log in again to this environment, and the
\* session file still holds what was last read from it (no other file has
\* changed either).
C9_RefreshFailure ==
    \A i \in FailedCalls("refresh_token") :
        /\ i = Len(netlog)
        /\ \A k \in DOMAIN netlog : netlog[k].op = "refresh_token" => k = i
        /\ lpc = "done" /\ outcome = "Exit1"
        /\ stderr = Advice("log in again", env)
        /\ files[EnvStem] = netlog[ReadBefore(i)].res
        /\ \A f \in FileStems \ {EnvStem} : files[f] = files0[f]

\* the refresh of an expired session failed
C9_Witness ==
    /\ FailedCalls("refresh_token") # {}
    /\ expired = "true"
    /\ lpc = "done"
    /\ files = files0

\* C10 as stated: whatever the environment, once a session without refresh
\* token was found in need of renewal the run has attempted an interactive
\* login, and a successful one is persisted and returned.
C10_AnyEnvironment ==
    (lpc = "done" /\ ExpiredNoRefresh # {}) =>
        /\ \E j \in DOMAIN netlog : netlog[j].op = "login"
        /\ \A j \in SucceededCalls("login") :
            /\ outcome = "Ok"
            /\ login_connection = netlog[j].res
            /\ files["config"] # None /\ Stores(files["config"][1], netlog[j].res[1])

\* C10: for the default environment, once a session without refresh token
\* was found in need of renewal the run attempts an interactive login; a
\* successful one is stored in the default file and returned, a failed one
\* is an error with the store untouched.  For a named environment no login
\* is attempted: the command exits with status 1 after advising to log in
\* again to that environment, the store untouched.
C10_DefaultOnly ==
    (lpc = "done" /\ ExpiredNoRefresh # {}) =>
        IF env = None
        THEN /\ \E j \in DOMAIN netlog : netlog[j].op = "login"
             /\ \A j \in SucceededCalls("login") :
                    /\ outcome = "Ok"
                    /\ login_connection = netlog[j].res
                    /\ files["config"] # None
                    /\ Stores(files["config"][1], netlog[j].res[1])
                    /\ \A f \in FileStems \ {"config"} : files[f] = files0[f]
             /\ FailedCalls("login") # {} => outcome = "Err" /\ files = files0
        ELSE /\ \A j \in DOMAIN netlog : netlog[j].op # "login"
             /\ outcome = "Exit1"
             /\ stderr = Advice("log in again", env)
             /\ files = files0

\* the default environment's session had expired without refresh token and
\* the login that followed was stored and returned
C10_Witness ==
    /\ env = None
    /\ lpc = "done"
    /\ ExpiredNoRefresh # {}
    /\ SucceededCalls("login") # {}
    /\ outcome = "Ok"
    /\ files["config"] # files0["config"]


\* C11 as stated: whatever the environment, when the environment has no
\* session file the run attempts an interactive login, and a successful
\* one leaves a session in that environment's file.
C11_AnyEnvironment ==
    (lpc = "done" /\ files0[EnvStem] = None) =>
        /\ \E j \in DOMAIN netlog : netlog[j].op = "login"
        /\ \A j \in SucceededCalls("login") :
            files[EnvStem] # None /\ outcome # "Exit1"

\* C11: for the default environment, when config.json does not exist the
\* run attempts an interactive login right after the failed read; a
\* successful login is stored in the default file and read back from it,
\* and the session read back is returned when it does not need renewal;
\* a failed login is an error with the store untouched.  For a named
\* environment no login is attempted: the command exits with status 1
\* after advising to log in to that environment, the store untouched.
C11_DefaultOnly ==
    /\ lpc = "login_missing" => env = None /\ files0["config"] = None
    /\ (lpc = "done" /\ files0[EnvStem] = None) =>
        IF env = None
        THEN /\ Len(netlog) >= 2
             /\ netlog[1] = IoEv("read", "config", None)
             /\ netlog[2].op = "login"
             /\ netlog[2].res = None => outcome = "Err" /\ files = files0
             /\ netlog[2].res # None =>
                    /\ Len(netlog) >= 4
                    /\ netlog[3].op = "read" /\ netlog[3].file = "config"
                    /\ netlog[3].res # None
                    /\ Stores(netlog[3].res[1], netlog[2].res[1])
                    /\ netlog[4].op = "needs_renewal"
                    /\ netlog[4].res = "false" =>
                            /\ outcome = "Ok"
                            /\ login_connection = netlog[2].res
                            /\ files["config"] # None
                            /\ Stores(files["config"][1], netlog[2].res[1])
                    /\ \A f \in FileStems \ {"config"} : files[f] = files0[f]
        ELSE /\ netlog = <<IoEv("read", EnvStem, None)>>
             /\ outcome = "Exit1"
             /\ stderr = Advice("log in", env)
             /\ files = files0

\* the default environment had no session file, the login succeeded and
\* its session was read back and returned
C11_Witness ==
    /\ env = None
    /\ lpc = "done"
    /\ files0["config"] = None
    /\ SucceededCalls("login") # {}
    /\ outcome = "Ok"
    /\ login_connection # None
    /\ files["config"] # None
    /\ Stores(files["config"][1], login_connection[1])

\* C12: a session that login_connection returns does not need renewal:
\* it has no expiration, or its expiration can be read and lies at least
\* 5 minutes after the clock.
C12_ReturnedSessionFresh ==
    (lpc = "done" /\ outcome = "Ok") =>
        /\ login_connection # None
        /\ \/ login_connection[1].expiration = None
           \/ /\ login_connection[1].expiration[1].valid
              /\ login_connection[1].expiration[1].t
                    - login_connection[1].expiration[1].off - now >= 5

\* the positions of link_args that repeat the label and kind of an earlier
\* argument
Duplicates ==
    {k \in DOMAIN link_args :
        \E j \in 1..(k - 1) :
            /\ link_args[j].label = link_args[k].label
            /\ link_args[j].resource_type = link_args[k].resource_type}

FirstDuplicate == CHOOSE k \in Duplicates : \A m \in Duplicates : k <= m

\* the map of a strategy for a resource kind
MapOf(s, resource_type) ==
    IF resource_type = Database THEN s.db_labels_to_resource
    ELSE s.kv_labels_to_resource

\* C13: a command whose --link arguments name a label twice for the same
\* resource kind fails with an error before any resolution: it has no
\* strategy, has asked nothing and called nothing; and at the second
\* argument set_label_action fails leaving the maps as they were, the
\* label still mapped to the resource of the first argument.
C13_DuplicateLabelRefused ==
    Duplicates # {} =>
        /\ pc = "done" /\ result = "Err"
        /\ interact = NoStrategy
        /\ trace = <<>>
        /\ selection = NoSelection /\ resources_to_link = <<>>
        /\ LET k == FirstDuplicate
               j == CHOOSE i \in 1..(k - 1) :
                        /\ link_args[i].label = link_args[k].label
                        /\ link_args[i].resource_type = link_args[k].resource_type
               before == parse_linkage_specs(SubSeq(link_args, 1, k - 1))
               after == set_label_action(before.strategy, link_args[k].label,
                                         link_args[k].resource_name,
                                         link_args[k].resource_type)
           IN  /\ before.ok
               /\ ~after.ok
               /\ after.strategy = before.strategy
               /\ MapOf(after.strategy, link_args[k].resource_type)[link_args[k].label]
                    = link_args[j].resource_name
               /\ ~parse_linkage_specs(link_args).ok

\* a command named two different databases for one label and was refused
C13_Witness ==
    /\ pc = "done"
    /\ result = "Err"
    /\ Len(link_args) = 2
    /\ link_args[1].label = link_args[2].label
    /\ link_args[1].resource_type = Database
    /\ link_args[2].resource_type = Database
    /\ link_args[1].resource_name # link_args[2].resource_name

\* C14: when a script that maps the label for the requested kind is asked,
\* it answers Existing(name) if the name is among the listed resources of
\* that kind and New(name) if not, never Cancelled; the step changes
\* neither the script nor the control plane and adds only the listing and
\* the prompt to the run's calls.
C14_ScriptedResolution ==
    [][(/\ pc = "resolve"
        /\ interact.mode = "Scripted"
        /\ Len(trace') = Len(trace) + 2
        /\ order[idx].label \in DOMAIN MapOf(interact, order[idx].kind))
       =>
       (/\ selection' =
              IF MapOf(interact, order[idx].kind)[order[idx].label]
                    \in resources[order[idx].kind]
              THEN Existing(MapOf(interact, order[idx].kind)[order[idx].label])
              ELSE New(MapOf(interact, order[idx].kind)[order[idx].label])
        /\ selection'.tag # "Cancelled"
        /\ interact' = interact
        /\ link_args' = link_args
        /\ apps' = apps /\ resources' = resources /\ links' = links
        /\ trace'[Len(trace) + 1].op = "get_resources"
        /\ trace'[Len(trace) + 2] =
              PromptEv(order[idx].kind, order[idx].label, selection'))]_vars

\* a script was asked for a label whose resource exists and chose it
C14_Witness ==
    /\ interact.mode = "Scripted"
    /\ selection.tag = "Existing"
    /\ selection.name \in resources[order[idx].kind]
    /\ trace # <<>>
    /\ trace[Len(trace)] = PromptEv(order[idx].kind, order[idx].label, selection)

\* the positions of the calls `op` in the run's trace
Calls(op) == {i \in Positions : trace[i].op = op}

\* the name the strategy selected for a label and kind in this run
SelectedName(label, kind) ==
    LET i == CHOOSE i \in Calls("prompt") :
                trace[i].label = label /\ trace[i].kind = kind
    IN  trace[i].res

C17_NewAppLinkages ==
    (path = "new" /\ linkage = "Some") =>
        LET failed == IF /\ pc = "done" /\ trace # <<>>
                         /\ trace[Len(trace)].op = "create_link"
                      THEN 1 ELSE 0
            linked == Cardinality(Calls("create_link")) - failed
        IN  /\ linked + Len(resources_to_link) = Len(order)
            /\ pc = "add_app" => Len(resources_to_link) = Len(order)
            /\ \A k \in 1..Len(resources_to_link) :
                    resources_to_link[k] =
                        LinkageSpec(order[linked + k].label,
                                    SelectedName(order[linked + k].label,
                                                 order[linked + k].kind),
                                    order[linked + k].kind)
            /\ \A i \in Calls("create_link") :
                LET k == Cardinality({j \in Calls("create_link") : j <= i})
                IN  /\ k <= Len(order)
                    /\ trace[i].kind = order[k].kind
                    /\ trace[i].label = order[k].label
                    /\ trace[i].res = SelectedName(order[k].label, order[k].kind)
                    /\ trace[i].ans = app

\* a new app with a database and a key value store label, one resource
\* new and one existing, was linked to both
C17_Witness ==
    /\ path = "new" /\ linkage = "Some"
    /\ Len(order) = 2
    /\ pc = "add_revision"
    /\ Cardinality(Calls("create_link")) = 2
    /\ \E i \in Calls("prompt") : trace[i].ans = "New"
    /\ \E i \in Calls("prompt") : trace[i].ans = "Existing"

\* C18 as stated: a new-app deploy that succeeded has registered the
\* revision and then created a channel for the app, the channel creation
\* being its last backend write.
C18_ChannelAfterRevision ==
    (path = "new" /\ pc = "done" /\ result = "Ok" /\ linkage = "Some") =>
        \E i \in Calls("add_revision") :
            \E j \in Calls("add_channel") :
                /\ i < j
                /\ \A m \in (j + 1)..Len(trace) :
                        trace[m].op \in {"get_app", "wait_for_ready"}

\* C28: a session that login_connection has returned has a token that is
\* not empty.
C28_NonEmptyToken ==
    (lpc = "done" /\ outcome = "Ok") =>
        /\ login_connection # None
        /\ login_connection[1].token # ""

\* ------------------------------------------------------------------------
\* Properties of the paginated searches (SearchSpec)
\* ------------------------------------------------------------------------
\* the first page that reports is_last_page
LastPage == CHOOSE n \in DOMAIN pages :
                /\ pages[n].is_last_page
                /\ \A m \in 1..(n - 1) : ~pages[m].is_last_page

\* the item at position i of page n is one searched for
Matches(n, i) ==
    /\ pages[n].items[i].app_id = query.app_id
    /\ pages[n].items[i].key = query.key

MatchingPages == {n \in 1..LastPage : \E i \in DOMAIN pages[n].items : Matches(n, i)}

\* C15: a search that has ended, get_revision_id and get_channel_id alike,
\* has asked for the pages 1, 2, ... in order and for none beyond the first
\* page reporting is_last_page.  If no list call failed: when some page up
\* to that one holds an item of the app and version (or name) searched,
\* the result is the id of such an item, also when the only one is on
\* that last page; when none does, the result is the not-found error and
\* every page up to and including that last page was asked for.
C15_PaginatedSearch ==
    spc = "done" =>
        /\ \A k \in DOMAIN fetched : fetched[k] = k
        /\ Len(fetched) <= LastPage
        /\ found # NoResult
        /\ found.ok =>
            \E n \in MatchingPages : \E i \in DOMAIN pages[n].items :
                Matches(n, i) /\ pages[n].items[i].id = found.val
        /\ found = NotFound => MatchingPages = {} /\ Len(fetched) = LastPage
        /\ found # FetchError =>
            /\ MatchingPages # {} => found.ok
            /\ MatchingPages = {} => found = NotFound

\* a revision search over three pages found its only match on the last
\* page
C15_Witness ==
    /\ spc = "done"
    /\ query.fn = "get_revision_id"
    /\ Len(pages) = 3
    /\ LastPage = 3
    /\ MatchingPages = {3}
    /\ found.ok
    /\ Len(fetched) = 3

\* ------------------------------------------------------------------------
\* Properties of the readiness wait (ReadySpec)
\* ------------------------------------------------------------------------
\* C19: with a readiness timeout of 0, wait_for_ready never polls the info
\* endpoint: it is never in its loop, no time passes, nothing is printed by
\* it, and what it returns is the immediate return.
C19_ZeroTimeoutNoPolls ==
    readiness_timeout_secs = 0 =>
        /\ polls = <<>>
        /\ elapsed = 0
        /\ wpc \notin {"poll", "sleep"}
        /\ waited \in {NoResult, Ok("skipped")}
        /\ \A k \in DOMAIN printed : printed[k] # "Waiting for application to become ready"

\* wait_for_ready was called with a timeout of 0 and has returned
C19_Witness ==
    /\ readiness_timeout_secs = 0
    /\ http_routes
    /\ wpc = "summary"
    /\ waited = Ok("skipped")
    /\ polls = <<>>

\* C20: wait_for_ready never returns an error, whether it saw the app
\* ready, ran out of time or gave up; once it has returned, deploy_cloud
\* only has the summary left; deploy_cloud never fails here, and when it
\* is done after a wait it has printed the routes last and returned
\* success.  A wait that timed out has printed its advice and the
\* command still succeeds.
C20_ReadinessNeverFails ==
    /\ waited = NoResult \/ waited.ok
    /\ deployed \in {NoResult, Ok("unit")}
    /\ waited # NoResult => wpc \in {"summary", "done"}
    /\ waited = Ok("timeout") =>
        \E k \in DOMAIN printed : printed[k] = "could not establish readiness"
    /\ wpc = "done" =>
        /\ deployed = Ok("unit")
        /\ http_routes =>
            /\ waited # NoResult
            /\ printed[Len(printed)] = "Available Routes"

\* a wait that polled more than once and timed out, after which the
\* command printed the routes and succeeded
C20_Witness ==
    /\ wpc = "done"
    /\ waited = Ok("timeout")
    /\ Len(polls) >= 2
    /\ elapsed >= readiness_timeout_secs
    /\ printed[Len(printed)] = "Available Routes"
    /\ deployed = Ok("unit")

\* the last response seen
LastPoll == polls[Len(polls)]

\* a response that did not reach the app, or that has a non-success status
Unanswered(resp) == resp.failed \/ ~resp.success

\* a successful response reporting a digest other than the expected one
Stale(resp) ==
    /\ ~resp.failed
    /\ resp.success
    /\ resp.body # None
    /\ resp.body[1].oci_image_digest # None
    /\ resp.body[1].oci_image_digest # Some(expected_version)

\* C21: a poll whose request fails or whose status is not a success does
\* not end the wait: unless the timeout has elapsed by then (and the wait
\* returns as timed out), wait_for_ready goes to sleep, and the sleep lasts
\* the poll interval of 2 seconds and is followed by the next poll.
C21_UnansweredPollRetried ==
    [][/\ (wpc = "poll" /\ Unanswered(LastPoll')) =>
            IF elapsed' >= readiness_timeout_secs
            THEN waited' = Ok("timeout") /\ wpc' = "summary"
            ELSE waited' = NoResult /\ wpc' = "sleep"
       /\ wpc = "sleep" =>
            /\ wpc' = "poll"
            /\ elapsed' = elapsed + 2
            /\ polls' = polls]_vars

\* a request that failed and a response with a non-success status were
\* each followed by a further poll
C21_Witness ==
    /\ Len(polls) >= 3
    /\ polls[1].failed
    /\ ~polls[2].failed /\ ~polls[2].success
    /\ elapsed >= 2 * READINESS_POLL_INTERVAL_SECS

C23_StaleBuildNotReady ==
    (polls # <<>> /\ Stale(LastPoll)) =>
        /\ waited \in {NoResult, Ok("timeout")}
        /\ waited = Ok("timeout") => elapsed >= readiness_timeout_secs
        /\ waited = NoResult => wpc \in {"sleep", "poll"}

\* the app first reported another digest, was polled again, then reported
\* the expected one and the wait returned ready
C23_Witness ==
    /\ Len(polls) = 2
    /\ Stale(polls[1])
    /\ polls[2].body = Some(AppInfo(Some(expected_version)))
    /\ waited = Ok("ready")

\* ------------------------------------------------------------------------
\* Properties of the linkage phase as a whole
\* ------------------------------------------------------------------------
\* the (label, kind) pairs declared by the app of the run
Declared == {order[i] : i \in DOMAIN order}

\* the pairs the linkage phase has to link: for an existing app, those
\* with no link when the run started
ToLink ==
    IF path = "existing"
    THEN {p \in Declared :
            ~\E y \in BagToSet(links0) :
                y.kind = p.kind /\ y.label = p.label /\ y.app = app}
    ELSE Declared

\* the name the script gives for a pair
Target(p) == resource_for(interact, p.label, p.kind).name

\* the linkage phase of a scripted run has ended without an error: the
\* run is at add_revision or past it
ScriptedPhaseDone ==
    /\ interact.mode = "Scripted"
    /\ linkage = "Some"
    /\ \/ pc = "add_revision"
       \/ \E i \in Positions : trace[i].op = "add_revision"

\* C24: after the linkage phase of a scripted run, the resources and the
\* links are those of the start of the run together with, for every pair
\* to link, the resource the script names and one link of the pair to it:
\* a function of the backend at the start, the script and the set of
\* declared pairs, whatever the order the pairs were processed in.
C24_OrderIndependent ==
    ScriptedPhaseDone =>
        /\ resources = [k \in ResourceType |->
                          resources0[k] \cup {Target(p) : p \in {q \in ToLink : q.kind = k}}]
        /\ links = links0 (+)
                     SetToBag({Link(p.kind, Target(p), p.label, app) : p \in ToLink})

\* two labels scripted to the same database, which did not exist, were
\* processed "finance" first and both are linked to it
C24_Witness ==
    /\ ScriptedPhaseDone
    /\ order = <<Pair("finance", Database), Pair("default", Database)>>
    /\ Target(order[1]) = "r2"
    /\ Target(order[2]) = "r2"
    /\ "r2" \notin resources0[Database]
    /\ "r2" \in resources[Database]

\* the calls that delete a resource or remove a link
RemovalOps == {"delete_database", "delete_key_value_store",
               "remove_database_link", "remove_key_value_store_link"}

\* C25: when the linkage phase was cancelled, everything that existed
\* when the run started still exists, every resource created for an
\* earlier label exists, for an existing app every link made for an
\* earlier label exists, and the run has made no delete or unlink call.
C25_NoRollbackOnCancel ==
    linkage = "None" =>
        /\ \A k \in ResourceType : resources0[k] \subseteq resources[k]
        /\ links0 \sqsubseteq links
        /\ \A i \in Positions :
            /\ trace[i].op \notin RemovalOps
            /\ trace[i].op = "create" =>
                /\ trace[i].res \in resources[trace[i].kind]
                /\ path = "existing" =>
                    BagIn(Link(trace[i].kind, trace[i].res, trace[i].label, app), links)
            /\ (trace[i].op = "create_link" /\ path = "existing") =>
                BagIn(Link(trace[i].kind, trace[i].res, trace[i].label, app), links)

\* the operator had a resource created for the first label and cancelled
\* at the second
C25_Witness ==
    /\ linkage = "None"
    /\ idx = 2
    /\ selection = Cancelled
    /\ \E i \in Positions :
        /\ trace[i].op = "create"
        /\ trace[i].label = order[1].label
        /\ trace[i].res \notin resources0[trace[i].kind]
        /\ trace[i].res \in resources[trace[i].kind]

\* C27: a run whose add_revision registered a version that was registered
\* already has not failed at that call.
C27_DuplicateRevisionTolerated ==
    (/\ trace # <<>>
     /\ trace[Len(trace)].op = "add_revision"
     /\ trace[Len(trace)].ans = "duplicate") => result # "Err"

\* ------------------------------------------------------------------------
\* Properties of the deploy command as a whole (CommandSpec)
\* ------------------------------------------------------------------------
\* the errors of the configuration
ConfigErrors == {Err("link syntax"), Err("duplicate label"), Err("app name")}

\* the network calls of the login
LoginNetOps == {"refresh_token", "login"}

\* C26: a command that failed on a --link argument that does not parse,
\* on a label linked twice or on an app name with a character that is
\* not allowed, has made no network call before: no token refresh, no
\* login, no load from a registry, no call of the control plane.
C26_EagerConfigErrors ==
    cmd_result \in ConfigErrors =>
        /\ \A i \in DOMAIN netlog : netlog[i].op \notin LoginNetOps
        /\ \A i \in DOMAIN cmd_log : ~cmd_log[i].net

\* ------------------------------------------------------------------------
\* Properties of the Interactive strategy (PromptSpec)
\* ------------------------------------------------------------------------
\* C29: when the strategy has returned after a prompt that ended with no
\* answer, whichever of its three prompts it was, it has returned
\* Cancelled.
C29_NoAnswerCancels ==
    (/\ ppc = "done"
     /\ \E i \in DOMAIN dialog : dialog[i].answer = NoAnswer) => prompted = Cancelled

\* ------------------------------------------------------------------------
\* Further properties of the linkage engine (Spec)
\* ------------------------------------------------------------------------
MutatingOps == {"create", "create_link"}

\* the mutating calls of the run made for the label and kind of event e
Mutations(e) == {j \in Positions : trace[j].op \in MutatingOps /\ SamePair(trace[j], e)}

\* C33: in a run on an existing app, the answer for an unlinked label is
\* followed by exactly one mutating call for that label: for New(name) a
\* create call of the label's kind for that name carrying the link, for
\* Existing(name) a link call of the label's kind to that name; any other
\* answer is followed by none, and no mutating call is made unasked.
C33_OneMutatingCall ==
    path = "existing" =>
        /\ \A i \in Positions :
            trace[i].op = "prompt" =>
                CASE trace[i].ans = "New" /\ i < Len(trace) ->
                        /\ trace[i + 1] = Ev("create", trace[i].kind, trace[i].res,
                                             trace[i].label, "Some")
                        /\ Mutations(trace[i]) = {i + 1}
                  [] trace[i].ans = "Existing" /\ i < Len(trace) ->
                        /\ trace[i + 1] = Ev("create_link", trace[i].kind, trace[i].res,
                                             trace[i].label, app)
                        /\ Mutations(trace[i]) = {i + 1}
                  [] OTHER -> Mutations(trace[i]) = {}
        /\ \A j \in Positions :
            trace[j].op \in MutatingOps =>
                /\ j > 1
                /\ trace[j - 1].op = "prompt"
                /\ SamePair(trace[j - 1], trace[j])

\* a finished run on an existing app that created a resource for one
\* unlinked label and linked an existing resource to another
C33_Witness ==
    /\ path = "existing"
    /\ pc = "done"
    /\ result = "Ok"
    /\ \E i, j \in Positions :
        /\ trace[i].op = "create" /\ trace[i].ans = "Some"
        /\ trace[j].op = "create_link"
        /\ ~SamePair(trace[i], trace[j])
        /\ LiveLinks(app, trace[i].label, trace[i].kind) = 1
        /\ LiveLinks(app, trace[j].label, trace[j].kind) = 1

\* the script has an entry of the event's kind for the event's label
Scripted_for(e) ==
    e.label \in DOMAIN (IF e.kind = Database THEN interact.db_labels_to_resource
                        ELSE interact.kv_labels_to_resource)

\* C34: in a scripted run, a label without an entry of its kind that is
\* listed as not linked gets no create and no link call, and the answer
\* for it is an error, not a cancellation, with which the linkage phase
\* and the command end; a label of an existing app listed as linked is
\* never looked up in the script, entry or not.
C34_MissingScriptedMapping ==
    interact.mode = "Scripted" =>
        \A i \in Positions :
            (trace[i].op = "get_resources" /\ ~Scripted_for(trace[i])) =>
                /\ Mutations(trace[i]) = {}
                /\ (trace[i].ans = "linked" /\ path = "existing") =>
                        \A j \in Positions :
                            trace[j].op = "prompt" => ~SamePair(trace[j], trace[i])
                /\ (trace[i].ans = "unlinked" \/ path = "new") =>
                        /\ i >= Len(trace) - 1
                        /\ i = Len(trace) - 1 =>
                                trace[i + 1] = PromptEv(trace[i].kind, trace[i].label, Failed)
                        /\ linkage = "Err"
                        /\ pc = "done"
                        /\ result = "Err"

\* a scripted run on an existing app passed a linked label that has no
\* entry, then failed at an unlinked label that has none
C34_Witness ==
    /\ interact.mode = "Scripted"
    /\ path = "existing"
    /\ pc = "done"
    /\ result = "Err"
    /\ Len(trace) >= 4
    /\ \E i \in Positions :
        /\ trace[i].op = "get_resources" /\ trace[i].ans = "linked"
        /\ ~Scripted_for(trace[i])
        /\ trace[i + 1].op = "get_resources" /\ trace[i + 1].ans = "unlinked"
        /\ ~Scripted_for(trace[i + 1])
        /\ trace[i + 2].op = "prompt" /\ trace[i + 2].ans = "Err"
        /\ i + 2 = Len(trace)

\* the --link arguments name no (label, kind) twice
OncePerKind ==
    \A a, b \in DOMAIN link_args :
        a # b => ~(/\ link_args[a].label = link_args[b].label
                   /\ link_args[a].resource_type = link_args[b].resource_type)

\* the resource the --link arguments give for the label and kind of event e
LinkArgFor(e) ==
    {link_args[a].resource_name :
        a \in {b \in DOMAIN link_args : /\ link_args[b].label = e.label
                                        /\ link_args[b].resource_type = e.kind}}

\* C35: --link arguments that name each (label, kind) once are accepted,
\* also when a label is named once for sqlite and once for kv; the answer
\* for a (label, kind), and every create and link call made for it, is
\* for the resource the argument of that same kind gives, and is a call of
\* that kind.
C35_KindsIndependent ==
    (pc # "idle" /\ link_args # <<>> /\ OncePerKind) =>
        /\ interact.mode = "Scripted"
        /\ \A j \in Positions :
            (\/ trace[j].op \in MutatingOps
             \/ trace[j].op = "prompt" /\ trace[j].ans \in {"New", "Existing"}) =>
                /\ trace[j].kind \in ResourceType
                /\ LinkArgFor(trace[j]) = {trace[j].res}

\* a scripted deploy of a new app that declares the label "default" as a
\* database and as a key value store: one resource of each kind was
\* created under the name given for that kind, and linked
C35_Witness ==
    /\ path = "new"
    /\ pc = "done"
    /\ result = "Ok"
    /\ \E a, b \in DOMAIN link_args :
        /\ link_args[a] = LinkageSpec("default", "r2", Database)
        /\ link_args[b] = LinkageSpec("default", "r1", KeyValueStore)
    /\ \E i, j, k, l \in Positions :
        /\ trace[i] = Ev("create", Database, "r2", "default", "None")
        /\ trace[j] = Ev("create", KeyValueStore, "r1", "default", "None")
        /\ trace[k] = Ev("create_link", Database, "r2", "default", app)
        /\ trace[l] = Ev("create_link", KeyValueStore, "r1", "default", app)

\* the names of the listing fetched before the call at position j of the
\* run: the resources of that kind the account had when the run started,
\* and those the run created before
ListedBefore(j) ==
    resources0[trace[j].kind]
        \cup {trace[i].res : i \in {k \in 1..(j - 1) : /\ trace[k].op = "create"
                                                      /\ trace[k].kind = trace[j].kind}}

\* C36: no create call of a run is for a name that was in the listing
\* fetched for its label.
C36_NoCreateForListedName ==
    \A j \in Positions :
        trace[j].op = "create" => trace[j].res \notin ListedBefore(j)

\* ------------------------------------------------------------------------
\* Readiness and the expected build (ReadySpec)
\* ------------------------------------------------------------------------
\* C37: a wait that returned ready did so after a poll whose request was
\* answered with a success status and a body reporting the expected
\* digest.
C37_ReadyMeansExpectedBuild ==
    waited = Ok("ready") =>
        /\ polls # <<>>
        /\ ~LastPoll.failed
        /\ LastPoll.success
        /\ LastPoll.body # None
        /\ LastPoll.body[1].oci_image_digest = Some(expected_version)

\* ------------------------------------------------------------------------
\* The app lookup (LookupSpec)
\* ------------------------------------------------------------------------
\* C38: when the account has an app of the name deployed, get_app_id
\* returns its id, and deploy_cloud adds an app only if there is none.
C38_AppLookupComplete ==
    /\ (looked_up \in {"Some", "None"} /\ app_at > 0) => looked_up = "Some"
    /\ (\E i \in DOMAIN arm : arm[i] = "add_app") => app_at = 0

\* ------------------------------------------------------------------------
\* The frame of the link command (LinkSpec)
\* ------------------------------------------------------------------------
\* C39: the link command for an app and a label makes at most one
\* remove-link call, and only for a link of that app with that label; it
\* reports "already linked" only when that app had the label linked to the
\* resource named.
C39_OwnAppOnly ==
    /\ Cardinality({i \in DOMAIN link_calls : link_calls[i].op = "remove_link"}) <= 1
    /\ \A i \in DOMAIN link_calls :
        link_calls[i].op = "remove_link" =>
            /\ link_calls[i].app = link_cmd.app
            /\ link_calls[i].label = link_cmd.label
    /\ link_result = Err("already linked") => link_calls[1].linked

\* ------------------------------------------------------------------------
\* Concurrent deploys (RaceSpec)
\* ------------------------------------------------------------------------
\* C40: however the calls of two runs deploying the same app with the same
\* unlinked label interleave, the app never has two live links for that
\* label and kind.
C40_ConcurrentDeploys ==
    LiveLinks(RaceApp, RacePair.label, RacePair.kind) <= 1

\* ------------------------------------------------------------------------
\* Progress of the paginated search (SearchLiveSpec)
\* ------------------------------------------------------------------------
\* C32: the search asks for the pages in increasing index from the first
\* page on; a page that was followed by a further fetch held no match and
\* did not report is_last_page; and, the listing having a page that
\* reports is_last_page, the search ends.
C32_SearchProgress ==
    /\ [](/\ \A k \in DOMAIN fetched : fetched[k] = k
          /\ \A k \in DOMAIN fetched : k > 1 => fetched[k] > fetched[k - 1]
          /\ \A k \in 1..(Len(fetched) - 1) :
                /\ find(pages[k].items, query.app_id, query.key) = None
                /\ ~pages[k].is_last_page
          /\ Len(fetched) <= LastPage)
    /\ <>(spc = "done" /\ found # NoResult)

\* a search over a listing of three pages found a match on the second
\* page and did not ask for the third
C32_Witness ==
    /\ spc = "done"
    /\ Len(pages) = 3
    /\ LastPage = 3
    /\ fetched = <<1, 2>>
    /\ found.ok
    /\ find(pages[2].items, query.app_id, query.key) # None
    /\ find(pages[3].items, query.app_id, query.key) # None

\* ------------------------------------------------------------------------
\* Termination of the readiness wait (ReadyLiveSpec)
\* ------------------------------------------------------------------------
\* ceil(T/2) + 1, the most polls of a wait with a timeout of T seconds
MostPolls(timeout) == (timeout + 1) \div READINESS_POLL_INTERVAL_SECS + 1

\* C31: with a timeout above 0 and polls that all return, wait_for_ready
\* terminates; it has polled at least once when it returns; a poll that
\* is not ready is followed by one test of the deadline, which either
\* returns or sleeps; the polls are 2 seconds apart at least, and there
\* are never more than ceil(T/2)+1 of them.
C31_WaitTerminates ==
    /\ [](readiness_timeout_secs > 0 =>
            /\ Len(polls) <= MostPolls(readiness_timeout_secs)
            /\ waited # NoResult => Len(polls) >= 1
            /\ polls # <<>> =>
                    elapsed >= READINESS_POLL_INTERVAL_SECS * (Len(polls) - 1)
            /\ wpc = "sleep" => elapsed < readiness_timeout_secs
            /\ waited = Ok("timeout") => elapsed >= readiness_timeout_secs)
    /\ <>(wpc = "done")

\* a wait of 3 seconds with instantaneous polls that made its 3 polls, at
\* 0, 2 and 4 seconds, and timed out
C31_Witness ==
    /\ readiness_timeout_secs = 3
    /\ Len(polls) = MostPolls(3)
    /\ elapsed = 4
    /\ waited = Ok("timeout")
    /\ wpc = "done"

\* ------------------------------------------------------------------------
\* Properties of the link command (LinkSpec)
\* ------------------------------------------------------------------------
\* the command has listed the resources and the control plane answered
Listed ==
    /\ link_calls # <<>>
    /\ link_result # Err("could not fetch")

\* C30: a link command that found the named resource missing, or found
\* the app's label already linked to that resource, makes no create-link
\* and no remove-link call, and once done it has returned an error.
C30_LinkRefusals ==
    (Listed /\ (~link_calls[1].exists \/ link_calls[1].linked)) =>
        /\ link_pc = "done"
        /\ ~link_result.ok
        /\ link_result # NoResult
        /\ Len(link_calls) = 1
        /\ \A i \in DOMAIN link_calls :
                link_calls[i].op \notin {"create_link", "remove_link"}

\* the app's label was already linked to the resource named, another
\* resource exists too, and the command was refused
C30_Witness ==
    /\ link_pc = "done"
    /\ Listed
    /\ link_calls[1].exists
    /\ link_calls[1].linked
    /\ link_result = Err("already linked")
    /\ Cardinality(resources[link_cmd.kind]) = 2
    /\ links = SetToBag({Link(link_cmd.kind, link_cmd.resource_name, link_cmd.label,
                              link_cmd.app)})

Next ==
    \/ StartDeploy
    \/ Exit
    \/ Resolve
    \/ CreateResource
    \/ LinkExisting
    \/ AddApp
    \/ LinkResources
    \/ AddRevision
    \/ AddKeyValuePair
    \/ SetVariables
    \/ Finish

\* the deploy runs of an account, one after the other
Spec == Init /\ [][Next]_vars

\* one login_connection run over a session store
SessionStart ==
    /\ apps = {OtherApp}
    /\ resources = [k \in ResourceType |-> {}]
    /\ links = EmptyBag
    /\ NoRun
    /\ SessionInit
    /\ SearchIdle
    /\ ReadyIdle
    /\ CmdIdle
    /\ PromptIdle
    /\ LinkIdle
    /\ LookupIdle
    /\ RaceIdle

SessionSpec == SessionStart /\ [][SessionNext]_vars

\* one search over a paginated listing
SearchStart ==
    /\ apps = {OtherApp}
    /\ resources = [k \in ResourceType |-> {}]
    /\ links = EmptyBag
    /\ NoRun
    /\ SessionIdle
    /\ SearchInit
    /\ ReadyIdle
    /\ CmdIdle
    /\ PromptIdle
    /\ LinkIdle
    /\ LookupIdle
    /\ RaceIdle

SearchSpec == SearchStart /\ [][SearchNext]_vars

\* every list call returns
SearchLiveSpec == SearchStart /\ [][SearchNext]_vars /\ WF_vars(SearchNext)

\* the end of one deploy_cloud run, from the app's base URL on
ReadyStart ==
    /\ apps = {OtherApp}
    /\ resources = [k \in ResourceType |-> {}]
    /\ links = EmptyBag
    /\ NoRun
    /\ SessionIdle
    /\ SearchIdle
    /\ ReadyInit
    /\ CmdIdle
    /\ PromptIdle
    /\ LinkIdle
    /\ LookupIdle
    /\ RaceIdle

ReadySpec == ReadyStart /\ [][ReadyNext]_vars

\* every poll returns and every sleep ends: a step that can be taken is
\* taken
ReadyLiveSpec == ReadyStart /\ [][ReadyNext]_vars /\ WF_vars(ReadyNext)

\* one run of the deploy command, from the login to the push
CommandStart ==
    /\ apps = {OtherApp}
    /\ resources = [k \in ResourceType |-> {}]
    /\ links = EmptyBag
    /\ NoRun
    /\ SearchIdle
    /\ ReadyIdle
    /\ CommandInit
    /\ PromptIdle
    /\ LinkIdle
    /\ LookupIdle
    /\ RaceIdle

CommandSpec == CommandStart /\ [][CommandNext]_vars

\* one call of the Interactive strategy
PromptStart ==
    /\ apps = {OtherApp}
    /\ resources = [k \in ResourceType |-> {}]
    /\ links = EmptyBag
    /\ NoRun
    /\ SessionIdle
    /\ SearchIdle
    /\ ReadyIdle
    /\ CmdIdle
    /\ PromptInit
    /\ LinkIdle
    /\ LookupIdle
    /\ RaceIdle

PromptSpec == PromptStart /\ [][PromptNext]_vars

\* one run of the link command
LinkStart ==
    /\ NoRun
    /\ SessionIdle
    /\ SearchIdle
    /\ ReadyIdle
    /\ CmdIdle
    /\ PromptIdle
    /\ LinkInit
    /\ LookupIdle
    /\ RaceIdle

LinkSpec == LinkStart /\ [][LinkNext]_vars

\* deploy_cloud looking up its app
LookupStart ==
    /\ apps = {OtherApp}
    /\ resources = [k \in ResourceType |-> {}]
    /\ links = EmptyBag
    /\ NoRun
    /\ SessionIdle
    /\ SearchIdle
    /\ ReadyIdle
    /\ CmdIdle
    /\ PromptIdle
    /\ LinkIdle
    /\ LookupInit
    /\ RaceIdle

LookupSpec == LookupStart /\ [][LookupNext]_vars

\* two deploy runs on one app, their calls interleaved
RaceStart ==
    /\ NoRun
    /\ SessionIdle
    /\ SearchIdle
    /\ ReadyIdle
    /\ CmdIdle
    /\ PromptIdle
    /\ LinkIdle
    /\ LookupIdle
    /\ RaceInit

RaceSpec == RaceStart /\ [][RaceNext]_vars
====
